---- MODULE Spec2Model ----
(***************************************************************************)
(* Client-side synchronisation layer of the wuya application: the          *)
(* SquareView feed (optimistic mutations, realtime merge), the module      *)
(* level caches of socialService / friendService and the FriendsView       *)
(* search.  Every handler is cut at its awaits: one action per segment     *)
(* that runs without suspension, and one action for the moment the remote  *)
(* store serves a call.                                                    *)
(***************************************************************************)
EXTENDS Integers, Sequences, FiniteSets, TLC

\* ------------------------------------------------------------------ bounds
MaxPublish == 1      \* publishPost invocations
MaxDelete == 1       \* delete confirmations
MaxUpdates == 1      \* UPDATE events raised by edits of a post
MaxRedeliver == 1    \* realtime events delivered a second time
MaxTicks == 1        \* clock advances
MaxFail == 1         \* remote calls that fail
MaxLikes == 2        \* clicks on the like button
MaxOtherLikes == 1   \* likes given or taken back by another user
MaxComments == 3     \* comments submitted in the comment panel
MaxBookmarks == 2    \* clicks on a bookmark button
MaxRequests == 2     \* clicks on the add button of a search result
MaxOtherRequests == 1  \* friend requests sent to the user by others
MaxOtherResponds == 1  \* requests of the user that others answer
MaxSelects == 1      \* times the image picker is used
MaxFiles == 4        \* files picked at once (one more than a post may carry)
MaxPicks == 3        \* times the image picker is used with no publish between
MaxSearch == 2       \* search requests issued by the debounce timer
MaxMount == 3        \* times a view is mounted (again)
MaxLoadTicks == 3    \* clock advances between loads
MaxEdits == 1        \* edits of a post saved by the user
MaxUnfriends == 1    \* friendships the user removes
MaxReminds == 2      \* study reminders the user sends
MaxOtherUnfriends == 1  \* friendships of the user that others remove
MaxOthersRows == 1   \* friend requests between two other users
MaxProfileUpdates == 2  \* profile rows edited by their users
MaxLoadMore == 2     \* clicks on load more
MaxNotes == 2        \* notes the user creates
MaxOtherNotes == 1   \* notes other users create
MaxNotifies == 1     \* notifications other users cause
MaxMarks == 2        \* clicks on an unread notification
MaxMarkAlls == 1     \* clicks on mark all read
MaxOpens == 1        \* times the notification panel is opened
MaxResponds == 2     \* clicks on accept or ignore

\* ------------------------------------------------------- program constants
FreshMs == 30000     \* freshness window of loadPosts
PageSize == 10       \* page size of getPosts
SearchLimit == 10    \* row limit of searchUsers
UidLen == 8          \* digits of a uid query
MaxImages == 3       \* images a post may carry
FriendsFreshMs == 30 * 1000  \* freshness window of loadFriends
MaxSelected == 3     \* CategorySelector: categories a user may select
CacheTtl == 5 * 60 * 1000    \* CACHE_TTL of both services
DayMs == 24 * 60 * 60 * 1000 \* the reminder window

\* the rows of the categories table with is_custom = false, by name
StandardCategories == {"c1", "c2", "c3"}

\* what the user may have typed into the custom tag input
CustomTags == {"", " ", "x1", " x1", "x2", "c1"}

Me == "me"
Other == "other"

VARIABLES
  now,          \* Date.now()
  posts,        \* SquareView: useState posts (the feed)
  page,         \* SquareView: useState page
  hasMore,      \* SquareView: useState hasMore
  isLoadingMore, \* SquareView: useState isLoadingMore
  postsCache,   \* socialService: postsCache, <<>> for null
  srvPosts,     \* remote posts table, newest first
  srvLikes,     \* remote likes table: set of <<post id, user>>
  srvComments,  \* remote comments table: set of [id, post]
  rtPosts,      \* realtime_posts channel: events not yet handled
  tasks,        \* async handlers suspended at an await
  rtLikes,      \* realtime_likes channel: events not yet handled
  likeHist,     \* history: per like click, what the post showed before it
  likesReceived, \* App: user.stats.likesReceived
  rtComments,   \* realtime_comments channel: events not yet handled
  comments,     \* CommentModal: useState comments (ids), panel of SrvId(0)
  commentsCache,\* socialService: commentsCache, post id -> entry
  commentHist,  \* history: what the panel and the count showed at first submit
  friends,      \* FriendsView: useState friends
  isReminded,   \* FriendsView: the friends whose entry has isReminded set
  friendsCache, \* friendService: friendsCache[user.id], <<>> when absent
  srvFriendships, \* remote friendships table: set of rows
  addFriendId,  \* FriendsView: useState addFriendId (the search box)
  searchTimeoutRef, \* FriendsView: pending debounce timer, <<>> or <<query>>
  searchSeqRef, \* FriendsView: useRef searchSeqRef
  searchResults,\* FriendsView: useState searchResults
  isSearching,  \* FriendsView: useState isSearching
  shownSeq,     \* history: sequence number of the response on display
  cnt,          \* how often each bounded operation has happened
  rtDeleted,    \* history: ids whose realtime DELETE has been applied
  pubDone,      \* history: publishes whose success path has completed
  delEarly,     \* history: publishes deleted by temp id before create resolved
  loadHist,     \* history: what each load that found a cache entry did
  latestFetch,  \* history: of the getFriends fetches that have returned,
                \* the one issued last and what it returned
  tab,          \* the view the user works in: "square" or "friends"
  session,      \* supabase.auth: whether getUser resolves with a user
  categories,   \* CategorySelector: names of the categories on offer
  selected,     \* CategorySelector: the selected names
  showLimitWarning, \* CategorySelector: the limit toast is up
  lastInput,    \* history: the input the selector handled last
  srvReminders, \* remote notifications table: the STUDY_REMINDER rows
  notes,        \* App: useState notes
  srvNotes,     \* remote notes table: set of rows
  rtNotes,      \* realtime_notes channel: events not yet handled
  notifications, \* MainLayout: useState notifications
  srvNotifications, \* remote notifications table: the rows addressed to the user
  rtNotifs,     \* realtime_notifications channel: INSERT events not yet handled
  isNotificationsOpen, \* MainLayout: useState isNotificationsOpen
  answered,     \* history: <<friendship id, status>> of the respondToFriendRequest
                \* calls the remote store has served
  srvBookmarks, \* remote bookmarks table: set of <<post id, user>>
  rtFriends,    \* realtime_friendships channel: events not yet handled
  resultStatus, \* FriendsView: friendshipStatus of the search results
  rtProfiles,   \* realtime_profiles_for_friends channel: events not yet handled
  isUploadingImages, \* SquareView: useState isUploadingImages
  newPostImages,\* SquareView: useState newPostImages (urls)
  storage,      \* remote storage: urls whose upload has completed
  toast         \* SquareView: the toast on display, "" for none

pageVars == <<page, hasMore, isLoadingMore>>
likeVars == <<rtLikes, likeHist, likesReceived>>
commentVars == <<rtComments, comments, commentsCache, commentHist>>
searchVars == <<addFriendId, searchTimeoutRef, searchSeqRef, searchResults,
                isSearching, shownSeq>>
\* what only the handlers of its own section assign, if any
requestVars == <<rtFriends, resultStatus, rtProfiles>>
selectorVars == <<categories, selected, showLimitWarning, lastInput>>
\* what the App shell and the notification panel hold, and their tables
noteVars == <<notes, srvNotes, rtNotes>>
notiVars == <<notifications, srvNotifications, rtNotifs, isNotificationsOpen,
              answered>>
appVars == <<srvReminders, noteVars, notiVars>>
composerVars == <<isUploadingImages, newPostImages, storage, toast>>
envVars == <<tab, session, selectorVars, appVars, srvBookmarks, requestVars, composerVars>>
friendVars == <<friends, isReminded, friendsCache, srvFriendships, loadHist, latestFetch, envVars,
                searchVars>>

vars == <<now, pageVars, posts, postsCache, srvPosts, srvLikes, srvComments, rtPosts,
          tasks, cnt, rtDeleted, pubDone, delEarly, likeVars, commentVars,
          friendVars>>

\* ------------------------------------------------------------- identifiers
TempId(n) == <<"temp", n>>
SrvId(n) == <<"srv", n>>
NoId == <<"none", 0>>

\* ---------------------------------------------------------------- helpers
HasId(s, id) == \E i \in 1..Len(s) : s[i].id = id

CountId(s, id) == Cardinality({i \in 1..Len(s) : s[i].id = id})

\* the feed card rendered for post id
Shown(id) == CHOOSE q \in {posts[i] : i \in 1..Len(posts)} : q.id = id

RemoveId(s, id) == SelectSeq(s, LAMBDA p : p.id # id)

ReplaceId(s, id, q) == [i \in 1..Len(s) |-> IF s[i].id = id THEN q ELSE s[i]]

Take(s, n) == IF Len(s) <= n THEN s ELSE SubSeq(s, 1, n)

MkPost(id, owner, nLikes, nComments, isLiked) ==
  [id |-> id, owner |-> owner, likes |-> nLikes, comments |-> nComments,
   isLiked |-> isLiked, isBookmarked |-> FALSE]

\* ------------------------------------------------------------ remote store
\* a row of the friendships table
Friendship(n, fromId, toId, status) ==
  [id |-> <<"f", n>>, user_id |-> fromId, friend_id |-> toId, status |-> status]

ServerHas(id) == HasId(srvPosts, id)

LikeCount(id) == Cardinality({l \in srvLikes : l[1] = id})

CommentCount(id) == Cardinality({c \in srvComments : c.post = id})

\* socialService.getPosts: the rows of page 0 as mapped by the service
GetPostsResult ==
  LET rows == Take(srvPosts, PageSize)
  IN  [i \in 1..Len(rows) |->
         [MkPost(rows[i].id, rows[i].owner, LikeCount(rows[i].id),
                 CommentCount(rows[i].id), <<rows[i].id, Me>> \in srvLikes)
            EXCEPT !.isBookmarked = <<rows[i].id, Me>> \in srvBookmarks]]

\* .range(from, to) over the ordered rows: from = page * pageSize,
\* to = from + pageSize - 1, both counted from 0
RangeOf(rows, from, to) ==
  IF from + 1 > Len(rows) THEN <<>>
  ELSE SubSeq(rows, from + 1, IF to + 1 < Len(rows) THEN to + 1 ELSE Len(rows))

\* socialService.getPosts(page, 10): the rows of that page as mapped by the
\* service
GetPostsPage(pageNo) ==
  LET rows == RangeOf(srvPosts, pageNo * PageSize,
                      pageNo * PageSize + PageSize - 1)
  IN  [i \in 1..Len(rows) |->
         [MkPost(rows[i].id, rows[i].owner, LikeCount(rows[i].id),
                 CommentCount(rows[i].id), <<rows[i].id, Me>> \in srvLikes)
            EXCEPT !.isBookmarked = <<rows[i].id, Me>> \in srvBookmarks]]

\* socialService.getPostById: <<>> for null.  The select asks for
\* likes(user_id), so likes[0]?.count and my_like are undefined: likes is 0
\* and isLiked is falsy whatever the likes table holds; my_bookmark is not
\* selected either, so isBookmarked is falsy too.
GetPostByIdResult(id) ==
  IF ServerHas(id)
  THEN LET row == CHOOSE r \in {srvPosts[i] : i \in 1..Len(srvPosts)} : r.id = id
       IN  <<MkPost(id, row.owner, 0, CommentCount(id), FALSE)>>
  ELSE <<>>

\* ------------------------------------------------------------------- tasks
Task(tid, kind, pc, id, temp) ==
  [tid |-> tid, kind |-> kind, pc |-> pc, id |-> id, temp |-> temp,
   full |-> <<>>, snap |-> <<>>, ok |-> TRUE, liked |-> FALSE, likes |-> 0,
   existing |-> FALSE, failed |-> FALSE, force |-> FALSE, seq |-> 0,
   query |-> <<>>, cache |-> <<>>, images |-> <<>>,
   uploading |-> FALSE, received |-> 0, reminded |-> {},
   since |-> 0, nextPage |-> 0, caller |-> Me,
   answer |-> "", wasRead |-> FALSE]

\* A task is named after what started it: the n-th click of its kind, or the
\* realtime event (and its copy number) it handles.
Tid(what, n, copy) == <<what, n, copy>>

\* a row change as the channel reports it; seq numbers the change, copy is
\* above 0 on a repeated delivery
Event(type, id) == [type |-> type, id |-> id, seq |-> cnt.event + 1, copy |-> 0]

\* a remote call may fail while the failure budget lasts
MayFail == cnt.fail < MaxFail

Step(t, u) == (tasks \ {t}) \cup {u}

Bump(k) == [cnt EXCEPT ![k] = @ + 1]

\* ------------------------------------------------------------------- Init
\* the remote tables: one post of another user, liked by its author
InitServer ==
  /\ srvPosts = <<[id |-> SrvId(0), owner |-> Other]>>
  /\ srvLikes = {<<SrvId(0), Other>>}
  /\ srvComments = {}
  /\ srvBookmarks = {}

\* the client before any view has loaded anything
InitView ==
  /\ now = 0
  /\ rtPosts = <<>>
  /\ rtLikes = <<>>
  /\ likeHist = <<>>
  /\ likesReceived = 0
  /\ isReminded = {}
  /\ srvReminders = {}
  /\ notes = <<>>
  /\ srvNotes = {}
  /\ rtNotes = <<>>
  /\ notifications = <<>>
  /\ srvNotifications = {}
  /\ rtNotifs = 0
  /\ isNotificationsOpen = FALSE
  /\ answered = {}
  /\ rtComments = <<>>
  /\ comments = <<>>
  /\ commentHist = <<>>
  /\ srvFriendships = {Friendship(0, "u1", Me, "accepted")}
  /\ loadHist = [view \in {"posts", "friends"} |-> <<>>]
  /\ latestFetch = <<>>
  /\ addFriendId = <<>>
  /\ searchTimeoutRef = <<>>
  /\ searchSeqRef = 0
  /\ searchResults = <<>>
  /\ isSearching = FALSE
  /\ shownSeq = [seq |-> 0, query |-> <<>>, dropped |-> 0]
  /\ cnt = [publish |-> 0, delete |-> 0, update |-> 0, redeliver |-> 0,
            tick |-> 0, fail |-> 0, event |-> 0, like |-> 0, otherLike |-> 0,
            comment |-> 0, inflight |-> 0, search |-> 0, mount |-> 0,
            bookmark |-> 0, request |-> 0, otherRequest |-> 0, otherRespond |-> 0,
            row |-> 0, select |-> 0, image |-> 0, edit |-> 0, unfriend |-> 0,
            remind |-> 0, otherUnfriend |-> 0, othersRow |-> 0,
            profile |-> 0, loadMore |-> 0, note |-> 0,
            otherNote |-> 0, notify |-> 0, mark |-> 0, markAll |-> 0,
            respond |-> 0, open |-> 0]
  /\ rtFriends = <<>>
  /\ rtProfiles = <<>>
  /\ categories = StandardCategories
  /\ selected = {}
  /\ showLimitWarning = FALSE
  /\ lastInput = [op |-> "none", name |-> ""]
  /\ isUploadingImages = FALSE
  /\ newPostImages = <<>>
  /\ storage = {}
  /\ toast = ""
  /\ rtDeleted = {}
  /\ pubDone = {}
  /\ delEarly = {}

\* SquareView's paging state: as useState initialises it, and as loadPosts
\* leaves it (setPage(0), setHasMore(data.length === 10))
PageFresh == page = 0 /\ hasMore = TRUE /\ isLoadingMore = FALSE

PageLoaded(data) ==
  page = 0 /\ hasMore = (Len(data) = PageSize) /\ isLoadingMore = FALSE

\* ... with a user signed in
\* the friends list not loaded yet
NoFriendsYet == friends = <<>> /\ friendsCache = <<>>

InitClient ==
  InitView /\ NoFriendsYet /\ session = TRUE /\ resultStatus = <<>>

InitCommon == InitServer /\ InitClient

\* SquareView just mounted with no cache: loadPosts is awaiting getPosts
Init ==
  /\ InitCommon
  /\ posts = <<>>
  /\ PageFresh
  /\ postsCache = <<>>
  /\ commentsCache = <<>>
  /\ tab = "square"
  /\ tasks = {Task(Tid("mount", 0, 0), "getPosts", "fetch", NoId, NoId)}

srvVars == <<srvPosts, srvLikes, srvComments>>
histVars == <<rtDeleted, pubDone, delEarly>>
squareVars == <<now, pageVars, posts, postsCache, srvVars, rtPosts, histVars, likeVars,
                commentVars>>

\* ------------------------------------------------ setPosts updater bodies
\* an INSERT updater without the duplicate test
InsertMergeAlways(current, fullPost, newPostId) == <<fullPost>> \o current

\* postsChannel INSERT: setPosts(current => ...)
InsertMerge(current, fullPost, newPostId) ==
  IF HasId(current, newPostId) THEN current ELSE <<fullPost>> \o current

\* postsChannel UPDATE: setPosts(current => current.map(...))
UpdateMerge(current, fullPost, updatedPostId) ==
  ReplaceId(current, updatedPostId, fullPost)

\* postsChannel DELETE: setPosts(current => current.filter(...))
DeleteMerge(current, deletedId) == RemoveId(current, deletedId)

\* publishPost, after getPostById: setPosts(prev => ...)
PublishMerge(prev, fullPost, tempId) ==
  IF HasId(prev, fullPost.id)
  THEN RemoveId(prev, tempId)
  ELSE ReplaceId(prev, tempId, fullPost)

\* publishPost: the optimistic post
OptimisticPost(tempId) == MkPost(tempId, Me, 0, 0, FALSE)

\* ------------------------------------------------------------- loadPosts
\* a component's setState acts only while that mount of it is on screen
Mounted(t) == t.tid[1] \in {"mount", "mountF"} => t.tid[2] = cnt.mount

\* The synchronous part of loadPosts(): what it shows and what it starts.
LoadPostsShown(cur) == IF postsCache # <<>> THEN postsCache[1].data ELSE cur

\* a freshness test that already refetches at an age of exactly 30 s
LoadPostsFetchesAtEdge ==
  IF postsCache # <<>> THEN now - postsCache[1].timestamp >= FreshMs ELSE TRUE

LoadPostsFetches ==
  IF postsCache # <<>> THEN now - postsCache[1].timestamp > FreshMs ELSE TRUE

\* socialService.getPosts(0, 10, forceRefresh) up to its first await
GetPostsCall(tid, forceRefresh) ==
  IF ~forceRefresh /\ postsCache # <<>>
     /\ now - postsCache[1].timestamp < CacheTtl
  THEN [Task(tid, "getPosts", "cached", NoId, NoId)
          EXCEPT !.snap = postsCache[1].data]
  ELSE [Task(tid, "getPosts", "fetch", NoId, NoId)
          EXCEPT !.force = forceRefresh]

LoadPostsTasks(cur, tid) ==
  IF LoadPostsFetches
  THEN cur \cup {GetPostsCall(tid, postsCache # <<>>)}
  ELSE cur

\* getPosts: the remote store answers the select (or fails: the service
\* logs and returns [])
GetPostsFetch(t) ==
  /\ t.kind = "getPosts" /\ t.pc = "fetch"
  /\ \/ /\ tasks' = Step(t, [t EXCEPT !.pc = "resolve", !.snap = GetPostsResult])
        /\ UNCHANGED cnt
     \/ /\ MayFail
        /\ cnt' = Bump("fail")
        /\ tasks' = Step(t, [t EXCEPT !.pc = "resolve", !.ok = FALSE])
  /\ UNCHANGED <<now, pageVars, posts, postsCache, srvVars, rtPosts, histVars>>
  /\ UNCHANGED <<likeVars, commentVars, friendVars>>

\* getPosts returns: the cache is replaced (page 0, no error) and the
\* caller's continuation runs setPosts(data)
GetPostsResolve(t) ==
  /\ t.kind = "getPosts" /\ t.pc \in {"resolve", "cached"}
  /\ postsCache' = IF t.pc = "resolve" /\ t.ok
                   THEN <<[data |-> t.snap, timestamp |-> now]>>
                   ELSE postsCache
  /\ posts' = IF Mounted(t) THEN t.snap ELSE posts
  /\ page' = IF Mounted(t) THEN 0 ELSE page
  /\ hasMore' = IF Mounted(t) THEN Len(t.snap) = PageSize ELSE hasMore
  /\ tasks' = tasks \ {t}
  /\ UNCHANGED <<now, isLoadingMore, srvVars, rtPosts, cnt, histVars>>
  /\ UNCHANGED <<likeVars, commentVars, friendVars>>

\* ----------------------------------------------------------- publishPost
\* a publish without the in-progress test
CanPublishAlways == TRUE

\* publishPost, first guard: if (isUploadingImages) { toast; return }
CanPublish == ~isUploadingImages

PublishClick ==
  /\ CanPublish
  /\ cnt.publish < MaxPublish
  /\ cnt' = Bump("publish")
  /\ tasks' = tasks \cup
       {[Task(Tid("publish", cnt.publish + 1, 0), "publish", "auth",
              SrvId(cnt.publish + 1), TempId(cnt.publish + 1))
           EXCEPT !.images = newPostImages, !.uploading = isUploadingImages]}
  /\ UNCHANGED <<now, pageVars, posts, postsCache, srvVars, rtPosts, histVars>>
  /\ UNCHANGED <<likeVars, commentVars, friendVars>>

\* after await getUser: the optimistic post is prepended
PublishOptimistic(t) ==
  /\ t.kind = "publish" /\ t.pc = "auth" /\ session
  /\ posts' = <<OptimisticPost(t.temp)>> \o posts
  /\ newPostImages' = <<>>
  /\ tasks' = Step(t, [t EXCEPT !.pc = "create"])
  /\ UNCHANGED <<now, pageVars, postsCache, srvVars, rtPosts, cnt, histVars>>
  /\ UNCHANGED <<likeVars, commentVars, friends, isReminded, friendsCache, srvFriendships,
                 loadHist, latestFetch, searchVars, tab, session, selectorVars, appVars, srvBookmarks, requestVars,
                 isUploadingImages, storage, toast>>

\* the remote store serves the insert of createPost (or fails)
CreateAtServer(t) ==
  /\ t.kind = "publish" /\ t.pc = "create"
  /\ \/ /\ srvPosts' = <<[id |-> t.id, owner |-> Me]>> \o srvPosts
        /\ rtPosts' = Append(rtPosts, Event("INSERT", t.id))
        /\ cnt' = Bump("event")
        /\ tasks' = Step(t, [t EXCEPT !.pc = "created"])
     \/ /\ MayFail
        /\ cnt' = Bump("fail")
        /\ tasks' = Step(t, [t EXCEPT !.pc = "createFailed"])
        /\ UNCHANGED <<srvPosts, rtPosts>>
  /\ UNCHANGED <<now, pageVars, posts, postsCache, srvLikes, srvComments, histVars>>
  /\ UNCHANGED <<likeVars, commentVars, friendVars>>

\* createPost returns its row: postsCache = null, then getPostById is called
CreateResolve(t) ==
  /\ t.kind = "publish" /\ t.pc = "created"
  /\ postsCache' = <<>>
  /\ tasks' = Step(t, [t EXCEPT !.pc = "fetch"])
  /\ UNCHANGED <<now, pageVars, posts, srvVars, rtPosts, cnt, histVars>>
  /\ UNCHANGED <<likeVars, commentVars, friendVars>>

\* createPost throws: the catch block removes the temp post
PublishRollback(t) ==
  /\ t.kind = "publish" /\ t.pc = "createFailed"
  /\ posts' = RemoveId(posts, t.temp)
  /\ tasks' = tasks \ {t}
  /\ UNCHANGED <<now, pageVars, postsCache, srvVars, rtPosts, cnt, histVars>>
  /\ UNCHANGED <<likeVars, commentVars, friendVars>>

\* getPostById: the remote store answers the select (or fails: null)
FetchPost(t) ==
  /\ t.kind \in {"publish", "rtInsert", "rtUpdate"} /\ t.pc = "fetch"
  /\ \/ /\ tasks' = Step(t, [t EXCEPT !.pc = "apply",
                                       !.full = GetPostByIdResult(t.id)])
        /\ UNCHANGED cnt
     \/ /\ MayFail
        /\ cnt' = Bump("fail")
        /\ tasks' = Step(t, [t EXCEPT !.pc = "apply"])
  /\ UNCHANGED <<now, pageVars, posts, postsCache, srvVars, rtPosts, histVars>>
  /\ UNCHANGED <<likeVars, commentVars, friendVars>>

\* publishPost after getPostById: reconcile temp and real id, or loadPosts()
PublishApply(t) ==
  /\ t.kind = "publish" /\ t.pc = "apply"
  /\ IF t.full # <<>>
     THEN /\ posts' = PublishMerge(posts, t.full[1], t.temp)
          /\ tasks' = tasks \ {t}
     ELSE /\ posts' = LoadPostsShown(posts)
          /\ tasks' = LoadPostsTasks(tasks \ {t}, Tid("reload", t.tid[2], 0))
  /\ pubDone' = pubDone \cup {t.id}
  /\ UNCHANGED <<now, pageVars, postsCache, srvVars, rtPosts, cnt, rtDeleted, delEarly>>
  /\ UNCHANGED <<likeVars, commentVars, friendVars>>

\* ------------------------------------------------- realtime_posts channel
\* The callback runs for the oldest undelivered event.  INSERT and UPDATE
\* await getPostById; DELETE runs setPosts at once.
RtPostsDeliver ==
  /\ rtPosts # <<>>
  /\ LET e == Head(rtPosts)
     IN  /\ rtPosts' = Tail(rtPosts)
         /\ IF e.type = "DELETE"
            THEN /\ posts' = DeleteMerge(posts, e.id)
                 /\ rtDeleted' = rtDeleted \cup {e.id}
                 /\ UNCHANGED tasks
            ELSE /\ tasks' = tasks \cup
                       {Task(Tid("event", e.seq, e.copy),
                             IF e.type = "INSERT" THEN "rtInsert" ELSE "rtUpdate",
                             "fetch", e.id, NoId)}
                 /\ UNCHANGED <<posts, rtDeleted>>
  /\ UNCHANGED <<now, pageVars, postsCache, srvVars, cnt, pubDone, delEarly>>
  /\ UNCHANGED <<likeVars, commentVars, friendVars>>

\* the channel delivers its oldest event a second time
RtPostsRedeliver ==
  /\ rtPosts # <<>>
  /\ cnt.redeliver < MaxRedeliver
  /\ cnt' = Bump("redeliver")
  /\ Head(rtPosts).copy = 0
  /\ rtPosts' = <<Head(rtPosts), [Head(rtPosts) EXCEPT !.copy = cnt.redeliver + 1]>>
                 \o Tail(rtPosts)
  /\ UNCHANGED <<now, pageVars, posts, postsCache, srvVars, tasks, histVars>>
  /\ UNCHANGED <<likeVars, commentVars, friendVars>>

RtInsertApply(t) ==
  /\ t.kind = "rtInsert" /\ t.pc = "apply"
  /\ posts' = IF t.full # <<>> THEN InsertMerge(posts, t.full[1], t.id) ELSE posts
  /\ tasks' = tasks \ {t}
  /\ UNCHANGED <<now, pageVars, postsCache, srvVars, rtPosts, cnt, histVars>>
  /\ UNCHANGED <<likeVars, commentVars, friendVars>>

RtUpdateApply(t) ==
  /\ t.kind = "rtUpdate" /\ t.pc = "apply"
  /\ posts' = IF t.full # <<>> THEN UpdateMerge(posts, t.full[1], t.id) ELSE posts
  /\ tasks' = tasks \ {t}
  /\ UNCHANGED <<now, pageVars, postsCache, srvVars, rtPosts, cnt, histVars>>
  /\ UNCHANGED <<likeVars, commentVars, friendVars>>

\* a row of the posts table is edited (updatePost from any session): the
\* channel reports an UPDATE
ServerUpdatePost ==
  /\ cnt.update < MaxUpdates
  /\ cnt' = [cnt EXCEPT !.update = @ + 1, !.event = @ + 1]
  /\ \E i \in 1..Len(srvPosts) :
       rtPosts' = Append(rtPosts, Event("UPDATE", srvPosts[i].id))
  /\ UNCHANGED <<now, pageVars, posts, postsCache, srvVars, tasks, histVars>>
  /\ UNCHANGED <<likeVars, commentVars, friendVars>>

\* ------------------------------------------------ delete confirm onClick
\* The menu offers delete on the user's own posts; postToDelete is that id.
DeleteClick ==
  /\ cnt.delete < MaxDelete
  /\ cnt' = Bump("delete")
  /\ \E i \in 1..Len(posts) :
       /\ posts[i].owner = Me
       /\ tasks' = tasks \cup {Task(Tid("delete", cnt.delete + 1, 0), "delete",
                                    "server", posts[i].id, NoId)}
       /\ delEarly' = delEarly \cup
            {t.id : t \in {u \in tasks : /\ u.kind = "publish"
                                         /\ u.temp = posts[i].id
                                         /\ u.pc \in {"create", "created"}}}
  /\ UNCHANGED <<now, pageVars, posts, postsCache, srvVars, rtPosts, rtDeleted, pubDone>>
  /\ UNCHANGED <<likeVars, commentVars, friendVars>>

\* the remote store serves the delete of deletePost: the rows with that id
\* go (none for an id the table never held), or the call fails
DeleteAtServer(t) ==
  /\ t.kind = "delete" /\ t.pc = "server"
  /\ \/ /\ srvPosts' = RemoveId(srvPosts, t.id)
        /\ IF ServerHas(t.id)
           THEN /\ rtPosts' = Append(rtPosts, Event("DELETE", t.id))
                /\ cnt' = Bump("event")
           ELSE UNCHANGED <<rtPosts, cnt>>
        /\ tasks' = Step(t, [t EXCEPT !.pc = "deleted"])
     \/ /\ MayFail
        /\ cnt' = Bump("fail")
        /\ tasks' = Step(t, [t EXCEPT !.pc = "deleteFailed"])
        /\ UNCHANGED <<srvPosts, rtPosts>>
  /\ UNCHANGED <<now, pageVars, posts, postsCache, srvLikes, srvComments, histVars>>
  /\ UNCHANGED <<likeVars, commentVars, friendVars>>

\* delete confirm onClick resuming with the removal done whether or not
\* deletePost threw
DeleteResolveEager(t) ==
  /\ t.kind = "delete" /\ t.pc \in {"deleted", "deleteFailed"}
  /\ postsCache' = IF postsCache # <<>>
                   THEN <<[postsCache[1] EXCEPT !.data = RemoveId(@, t.id)]>>
                   ELSE postsCache
  /\ posts' = RemoveId(posts, t.id)
  /\ tasks' = tasks \ {t}
  /\ UNCHANGED <<now, pageVars, srvVars, rtPosts, cnt, histVars>>
  /\ UNCHANGED <<likeVars, commentVars, friendVars>>

\* deletePost returns (cache filtered, then setPosts filter) or throws (toast)
DeleteResolve(t) ==
  /\ t.kind = "delete" /\ t.pc \in {"deleted", "deleteFailed"}
  /\ IF t.pc = "deleted"
     THEN /\ postsCache' = IF postsCache # <<>>
                           THEN <<[postsCache[1] EXCEPT
                                     !.data = RemoveId(@, t.id)]>>
                           ELSE postsCache
          /\ posts' = RemoveId(posts, t.id)
     ELSE UNCHANGED <<postsCache, posts>>
  /\ tasks' = tasks \ {t}
  /\ UNCHANGED <<now, pageVars, srvVars, rtPosts, cnt, histVars>>
  /\ UNCHANGED <<likeVars, commentVars, friendVars>>

\* ------------------------------------------------------------------ clock
Tick(d, max) ==
  /\ cnt.tick < max
  /\ cnt' = Bump("tick")
  /\ now' = now + d
  /\ UNCHANGED <<pageVars, posts, postsCache, srvVars, rtPosts, tasks, histVars>>
  /\ UNCHANGED <<likeVars, commentVars, friendVars>>

\* ----------------------------------------------------- like button onClick
\* the feed as the click handler and the realtime handler rewrite it
SetLike(list, id, isLiked, nLikes) ==
  [i \in 1..Len(list) |->
     IF list[i].id = id
     THEN [list[i] EXCEPT !.isLiked = isLiked, !.likes = nLikes]
     ELSE list[i]]

Max0(n) == IF n < 0 THEN 0 ELSE n

\* onClick, optimistic update: setPosts(posts.map(...)) over the rendered posts
LikeOptimistic(rendered, post) ==
  SetLike(rendered, post.id, ~post.isLiked,
          IF ~post.isLiked THEN post.likes + 1 ELSE post.likes - 1)

\* onClick, catch block: setPosts(posts.map(...)) over the posts rendered at
\* the click, with the clicked post's own count and the flag flipped back
LikeRevert(rendered, id, isNowLiked, nLikes) ==
  SetLike(rendered, id, ~isNowLiked, nLikes)

\* likesChannel: setPosts(current => current.map(...)), delta +1 / -1 / 0
LikeDelta(current, postId, type) ==
  [i \in 1..Len(current) |->
     IF current[i].id = postId
     THEN [current[i] EXCEPT !.likes =
             Max0(@ + (IF type = "INSERT" THEN 1
                       ELSE IF type = "DELETE" THEN -1 ELSE 0))]
     ELSE current[i]]

\* toggleLike, optimistic cache update
CacheToggleLike(data, postId) ==
  [i \in 1..Len(data) |->
     IF data[i].id = postId
     THEN [data[i] EXCEPT !.isLiked = ~@,
             !.likes = IF ~data[i].isLiked THEN @ + 1 ELSE Max0(@ - 1)]
     ELSE data[i]]

LikeTasks == {t \in tasks : t.kind = "like"}

\* post.userId of the clicked post, as rendered at the click
OwnerAtClick(t) ==
  (CHOOSE p \in {t.snap[i] : i \in 1..Len(t.snap)} : p.id = t.id).owner

\* the likesReceived handed to onUserUpdate: user.stats.likesReceived of
\* the render the click happened in, plus 1, or minus 1 and not below 0
StatAfterToggle(received, isNowLiked) ==
  IF isNowLiked THEN received + 1 ELSE Max0(received - 1)

\* click on the like button of a rendered post; the handler holds the post
\* and the user of its render
LikeClick ==
  /\ cnt.like < MaxLikes
  /\ cnt' = Bump("like")
  /\ \E i \in 1..Len(posts) :
       /\ posts' = LikeOptimistic(posts, posts[i])
       /\ tasks' = tasks \cup
            {[Task(Tid("like", cnt.like + 1, 0), "like", "auth", posts[i].id, NoId)
                EXCEPT !.snap = posts, !.liked = ~posts[i].isLiked,
                       !.likes = posts[i].likes, !.received = likesReceived]}
       /\ likeHist' = Append(likeHist, [id |-> posts[i].id,
                                        likes |-> posts[i].likes,
                                        isLiked |-> posts[i].isLiked,
                                        overlap |-> LikeTasks # {}])
  /\ UNCHANGED <<now, pageVars, postsCache, srvVars, rtPosts, rtLikes, likesReceived,
                 histVars>>
  /\ UNCHANGED <<commentVars, friendVars>>

\* after await getUser: toggleLike starts, its cache update runs, the select
\* for an existing like is sent
LikeAuth(t) ==
  /\ t.kind = "like" /\ t.pc = "auth" /\ session
  /\ postsCache' = IF postsCache # <<>>
                   THEN <<[postsCache[1] EXCEPT !.data = CacheToggleLike(@, t.id)]>>
                   ELSE postsCache
  /\ tasks' = Step(t, [t EXCEPT !.pc = "select", !.cache = postsCache])
  /\ UNCHANGED <<now, pageVars, posts, srvVars, rtPosts, cnt, histVars, likeVars>>
  /\ UNCHANGED <<commentVars, friendVars>>

\* the remote store answers the select: a row, no row, an error (data is
\* null, the error is not looked at), or the call itself rejects
LikeSelect(t) ==
  /\ t.kind = "like" /\ t.pc = "select"
  /\ \/ /\ tasks' = Step(t, [t EXCEPT !.pc = "write",
                               !.existing = <<t.id, Me>> \in srvLikes])
        /\ UNCHANGED cnt
     \/ /\ MayFail
        /\ cnt' = Bump("fail")
        /\ \/ tasks' = Step(t, [t EXCEPT !.pc = "write", !.existing = FALSE])
           \/ tasks' = Step(t, [t EXCEPT !.pc = "rejected", !.failed = TRUE])
  /\ UNCHANGED <<now, pageVars, posts, postsCache, srvVars, rtPosts, histVars, likeVars>>
  /\ UNCHANGED <<commentVars, friendVars>>

\* the remote store serves the delete or the insert toggleLike sends next
\* (an insert of a row that exists is refused); an error answer is not
\* looked at and toggleLike returns as on success, a rejection throws
LikeWrite(t) ==
  /\ t.kind = "like" /\ t.pc = "write"
  /\ \/ /\ srvLikes' = IF t.existing THEN srvLikes \ {<<t.id, Me>>}
                       ELSE srvLikes \cup {<<t.id, Me>>}
        /\ rtLikes' = IF srvLikes' # srvLikes
                      THEN Append(rtLikes, [type |-> IF t.existing THEN "DELETE"
                                                     ELSE "INSERT",
                                            post |-> t.id])
                      ELSE rtLikes
        /\ tasks' = Step(t, [t EXCEPT !.pc = "written"])
        /\ UNCHANGED cnt
     \/ /\ MayFail
        /\ cnt' = Bump("fail")
        /\ \/ tasks' = Step(t, [t EXCEPT !.pc = "written", !.failed = TRUE])
           \/ tasks' = Step(t, [t EXCEPT !.pc = "rejected", !.failed = TRUE])
        /\ UNCHANGED <<srvLikes, rtLikes>>
  /\ UNCHANGED <<now, pageVars, posts, postsCache, srvPosts, srvComments, rtPosts,
                 histVars, likeHist, likesReceived>>
  /\ UNCHANGED <<commentVars, friendVars>>

\* toggleLike has returned: nothing more is done to the feed; for a post of
\* the user, onUserUpdate replaces the stats
LikeResolve(t) ==
  /\ t.kind = "like" /\ t.pc = "written"
  /\ likesReceived' = IF OwnerAtClick(t) = Me
                      THEN StatAfterToggle(t.received, t.liked)
                      ELSE likesReceived
  /\ tasks' = tasks \ {t}
  /\ UNCHANGED <<now, pageVars, posts, postsCache, srvVars, rtPosts, cnt, histVars,
                 rtLikes, likeHist>>
  /\ UNCHANGED <<commentVars, friendVars>>

\* toggleLike has thrown: the catch block reverts
LikeRollback(t) ==
  /\ t.kind = "like" /\ t.pc = "rejected"
  /\ posts' = LikeRevert(t.snap, t.id, t.liked, t.likes)
  /\ tasks' = tasks \ {t}
  /\ UNCHANGED <<now, pageVars, postsCache, srvVars, rtPosts, cnt, histVars, likeVars>>
  /\ UNCHANGED <<commentVars, friendVars>>

\* realtime_likes channel: the callback runs for the oldest event
RtLikesDeliver ==
  /\ rtLikes # <<>>
  /\ posts' = LikeDelta(posts, Head(rtLikes).post, Head(rtLikes).type)
  /\ rtLikes' = Tail(rtLikes)
  /\ UNCHANGED <<now, pageVars, postsCache, srvVars, rtPosts, tasks, cnt, histVars,
                 likeHist, likesReceived>>
  /\ UNCHANGED <<commentVars, friendVars>>

\* another user likes a post, or takes the like back
OtherUserLike ==
  /\ cnt.otherLike < MaxOtherLikes
  /\ cnt' = Bump("otherLike")
  /\ \E i \in 1..Len(srvPosts) :
       LET l == <<srvPosts[i].id, Other>>
       IN  /\ srvLikes' = IF l \in srvLikes THEN srvLikes \ {l}
                          ELSE srvLikes \cup {l}
           /\ rtLikes' = Append(rtLikes, [type |-> IF l \in srvLikes THEN "DELETE"
                                                   ELSE "INSERT",
                                          post |-> l[1]])
  /\ UNCHANGED <<now, pageVars, posts, postsCache, srvPosts, srvComments, rtPosts, tasks,
                 histVars, likeHist, likesReceived>>
  /\ UNCHANGED <<commentVars, friendVars>>

\* SquareView after its first load: the feed and the cache hold page 0
InitLoaded ==
  /\ InitCommon
  /\ posts = <<MkPost(SrvId(0), Other, 1, 0, FALSE)>>
  /\ PageLoaded(posts)
  /\ postsCache = <<[data |-> posts, timestamp |-> 0]>>
  /\ commentsCache = <<>>
  /\ tab = "square"
  /\ tasks = {}

NextLikes ==
  \/ LikeClick
  \/ \E t \in tasks : LikeAuth(t)
  \/ \E t \in tasks : LikeSelect(t)
  \/ \E t \in tasks : LikeWrite(t)
  \/ \E t \in tasks : LikeResolve(t)
  \/ \E t \in tasks : LikeRollback(t)
  \/ RtLikesDeliver
  \/ OtherUserLike

SpecLikes == InitLoaded /\ [][NextLikes]_vars

\* ------------------------------------------------- SquareView: bookmark button
\* onClick, optimistic update: setPosts(posts.map(...)) over the rendered posts
BookmarkOptimistic(rendered, post) ==
  [i \in 1..Len(rendered) |->
     IF rendered[i].id = post.id
     THEN [rendered[i] EXCEPT !.isBookmarked = ~post.isBookmarked]
     ELSE rendered[i]]

\* onClick, catch block: the flag of the click (ns) is flipped back over the
\* posts rendered at the click
BookmarkRevert(rendered, id, ns) ==
  [i \in 1..Len(rendered) |->
     IF rendered[i].id = id THEN [rendered[i] EXCEPT !.isBookmarked = ~ns]
     ELSE rendered[i]]

\* toggleBookmark, optimistic cache update
CacheToggleBookmark(data, postId) ==
  [i \in 1..Len(data) |->
     IF data[i].id = postId THEN [data[i] EXCEPT !.isBookmarked = ~@]
     ELSE data[i]]

BookmarkTasks == {t \in tasks : t.kind = "bookmark"}

\* click on the bookmark button of a rendered post; the task keeps ns in its
\* field liked
BookmarkClick ==
  /\ cnt.bookmark < MaxBookmarks
  /\ cnt' = Bump("bookmark")
  /\ \E i \in 1..Len(posts) :
       /\ posts' = BookmarkOptimistic(posts, posts[i])
       /\ tasks' = tasks \cup
            {[Task(Tid("bookmark", cnt.bookmark + 1, 0), "bookmark", "auth",
                   posts[i].id, NoId)
                EXCEPT !.snap = posts, !.liked = ~posts[i].isBookmarked]}
  /\ UNCHANGED <<now, pageVars, postsCache, srvVars, rtPosts, histVars, likeVars>>
  /\ UNCHANGED <<commentVars, friendVars>>

\* after await getUser: toggleBookmark starts, its cache update runs, the
\* select for an existing bookmark is sent
BookmarkAuth(t) ==
  /\ t.kind = "bookmark" /\ t.pc = "auth" /\ session
  /\ postsCache' =
       IF postsCache # <<>>
       THEN <<[postsCache[1] EXCEPT !.data = CacheToggleBookmark(@, t.id)]>>
       ELSE postsCache
  /\ tasks' = Step(t, [t EXCEPT !.pc = "select", !.cache = postsCache])
  /\ UNCHANGED <<now, pageVars, posts, srvVars, rtPosts, cnt, histVars, likeVars>>
  /\ UNCHANGED <<commentVars, friendVars>>

\* the remote store answers the select: a row, no row, an error (data is
\* null, the error is not looked at), or the call itself rejects
BookmarkSelect(t) ==
  /\ t.kind = "bookmark" /\ t.pc = "select"
  /\ \/ /\ tasks' = Step(t, [t EXCEPT !.pc = "write",
                               !.existing = <<t.id, Me>> \in srvBookmarks])
        /\ UNCHANGED cnt
     \/ /\ MayFail
        /\ cnt' = Bump("fail")
        /\ \/ tasks' = Step(t, [t EXCEPT !.pc = "write", !.existing = FALSE,
                                         !.failed = TRUE])
           \/ tasks' = Step(t, [t EXCEPT !.pc = "rejected", !.failed = TRUE])
  /\ UNCHANGED <<now, pageVars, posts, postsCache, srvVars, rtPosts, histVars, likeVars>>
  /\ UNCHANGED <<commentVars, friendVars>>

\* the remote store serves the delete or the insert toggleBookmark sends
\* next; an error answer is not looked at, a rejection throws
BookmarkWrite(t) ==
  /\ t.kind = "bookmark" /\ t.pc = "write"
  /\ \/ /\ srvBookmarks' = IF t.existing THEN srvBookmarks \ {<<t.id, Me>>}
                           ELSE srvBookmarks \cup {<<t.id, Me>>}
        /\ tasks' = Step(t, [t EXCEPT !.pc = "written"])
        /\ UNCHANGED cnt
     \/ /\ MayFail
        /\ cnt' = Bump("fail")
        /\ \/ tasks' = Step(t, [t EXCEPT !.pc = "written", !.failed = TRUE])
           \/ tasks' = Step(t, [t EXCEPT !.pc = "rejected", !.failed = TRUE])
        /\ UNCHANGED srvBookmarks
  /\ UNCHANGED <<now, pageVars, posts, postsCache, srvVars, rtPosts, histVars, likeVars>>
  /\ UNCHANGED <<commentVars, friends, isReminded, friendsCache, srvFriendships, loadHist, latestFetch,
                 tab, session, selectorVars, appVars, requestVars, composerVars, searchVars>>

\* toggleBookmark has returned (onUserUpdate adjusts the profile's counter,
\* which is not part of the feed) or thrown (the catch block reverts)
BookmarkResolve(t) ==
  /\ t.kind = "bookmark" /\ t.pc \in {"written", "rejected"}
  /\ posts' = IF t.pc = "rejected" THEN BookmarkRevert(t.snap, t.id, t.liked)
              ELSE posts
  /\ tasks' = tasks \ {t}
  /\ UNCHANGED <<now, pageVars, postsCache, srvVars, rtPosts, cnt, histVars, likeVars>>
  /\ UNCHANGED <<commentVars, friendVars>>

NextBookmarks ==
  \/ BookmarkClick
  \/ \E t \in tasks : BookmarkAuth(t)
  \/ \E t \in tasks : BookmarkSelect(t)
  \/ \E t \in tasks : BookmarkWrite(t)
  \/ \E t \in tasks : BookmarkResolve(t)

SpecBookmarks == InitLoaded /\ [][NextBookmarks]_vars

\* ----------------------------------------------------------- CommentModal
TempCommentId(n) == <<"tempc", n>>
CommentId(n) == <<"c", n>>

\* onCommentAdded: setPosts(posts.map(...)) over the posts of the render the
\* callback was created in
OnCommentAdded(rendered, PostId) ==
  [i \in 1..Len(rendered) |->
     IF rendered[i].id = PostId
     THEN [rendered[i] EXCEPT !.comments = @ + 1]
     ELSE rendered[i]]

\* commentsChannel: setPosts(current => current.map(...)), delta +1 / -1 / 0
CommentDelta(current, postId, type) ==
  [i \in 1..Len(current) |->
     IF current[i].id = postId
     THEN [current[i] EXCEPT !.comments =
             Max0(@ + (IF type = "INSERT" THEN 1
                       ELSE IF type = "DELETE" THEN -1 ELSE 0))]
     ELSE current[i]]

\* submit: setComments(prev => prev.map(c => c.id === temp.id ? real : c))
SwapComment(prev, tempId, realId) ==
  [i \in 1..Len(prev) |-> IF prev[i] = tempId THEN realId ELSE prev[i]]

\* an append that also opens an entry for a post that has none
CacheAppendOrCreate(cache, postId, newComment) ==
  IF \E i \in 1..Len(cache) : cache[i].post = postId
  THEN [i \in 1..Len(cache) |->
          IF cache[i].post = postId
          THEN [cache[i] EXCEPT !.data = Append(@, newComment),
                                !.timestamp = now]
          ELSE cache[i]]
  ELSE Append(cache, [post |-> postId, data |-> <<newComment>>,
                      timestamp |-> now])

\* createComment: const cachedComments = commentsCache.get(postId);
\* if (cachedComments) commentsCache.set(postId, {data: [...data, new], now})
CacheAppendComment(cache, postId, newComment) ==
  [i \in 1..Len(cache) |->
     IF cache[i].post = postId
     THEN [cache[i] EXCEPT !.data = Append(@, newComment), !.timestamp = now]
     ELSE cache[i]]

CommentTasks == {t \in tasks : t.kind = "comment"}

CommentsInFlight ==
  Cardinality({t \in CommentTasks : t.pc \in {"create", "created", "createFailed"}})

\* submit: the temporary comment is appended and getUser awaited.  submit
\* holds the onCommentAdded of its render, and that the posts of its render.
CommentSubmit ==
  /\ cnt.comment < MaxComments
  /\ cnt' = Bump("comment")
  /\ comments' = Append(comments, TempCommentId(cnt.comment + 1))
  /\ tasks' = tasks \cup
       {[Task(Tid("comment", cnt.comment + 1, 0), "comment", "auth", SrvId(0),
              TempCommentId(cnt.comment + 1)) EXCEPT !.snap = posts]}
  /\ commentHist' = IF commentHist = <<>>
                    THEN <<[count |-> Shown(SrvId(0)).comments,
                            length |-> Len(comments)]>>
                    ELSE commentHist
  /\ UNCHANGED <<now, pageVars, posts, postsCache, srvVars, rtPosts, histVars, likeVars,
                 rtComments, commentsCache, friendVars>>

\* after await getUser: createComment is called
CommentAuth(t) ==
  /\ t.kind = "comment" /\ t.pc = "auth" /\ session
  /\ tasks' = Step(t, [t EXCEPT !.pc = "create"])
  /\ cnt' = [cnt EXCEPT !.inflight =
               IF CommentsInFlight + 1 > @ THEN CommentsInFlight + 1 ELSE @]
  /\ UNCHANGED <<now, pageVars, posts, postsCache, srvVars, rtPosts, histVars, likeVars,
                 commentVars, friendVars>>

\* the remote store serves the insert of createComment (or fails)
CommentAtServer(t) ==
  /\ t.kind = "comment" /\ t.pc = "create"
  /\ \/ /\ srvComments' = srvComments \cup
                            {[id |-> CommentId(t.tid[2]), post |-> t.id,
                              created_at |-> Cardinality(srvComments) + 1]}
        /\ rtComments' = Append(rtComments, [type |-> "INSERT", post |-> t.id])
        /\ tasks' = Step(t, [t EXCEPT !.pc = "created"])
        /\ UNCHANGED cnt
     \/ /\ MayFail
        /\ cnt' = Bump("fail")
        /\ tasks' = Step(t, [t EXCEPT !.pc = "createFailed", !.failed = TRUE])
        /\ UNCHANGED <<srvComments, rtComments>>
  /\ UNCHANGED <<now, pageVars, posts, postsCache, srvPosts, srvLikes, rtPosts, histVars,
                 likeVars, comments, commentsCache, commentHist, friendVars>>

\* createComment returns (the caches are updated, the temporary comment is
\* swapped, onCommentAdded runs) or throws (alert)
CommentResolve(t) ==
  /\ t.kind = "comment" /\ t.pc \in {"created", "createFailed"}
  /\ IF t.pc = "created"
     THEN /\ postsCache' =
               IF postsCache # <<>>
               THEN <<[postsCache[1] EXCEPT !.data = OnCommentAdded(@, t.id)]>>
               ELSE postsCache
          /\ commentsCache' =
               CacheAppendComment(commentsCache, t.id, CommentId(t.tid[2]))
          /\ comments' = SwapComment(comments, t.temp, CommentId(t.tid[2]))
          /\ posts' = OnCommentAdded(t.snap, t.id)
     ELSE UNCHANGED <<postsCache, commentsCache, comments, posts>>
  /\ tasks' = tasks \ {t}
  /\ UNCHANGED <<now, pageVars, srvVars, rtPosts, cnt, histVars, likeVars, rtComments,
                 commentHist, friendVars>>

\* realtime_comments channel: the callback runs for the oldest event
RtCommentsDeliver ==
  /\ rtComments # <<>>
  /\ posts' = CommentDelta(posts, Head(rtComments).post, Head(rtComments).type)
  /\ rtComments' = Tail(rtComments)
  /\ UNCHANGED <<now, pageVars, postsCache, srvVars, rtPosts, tasks, cnt, histVars,
                 likeVars, comments, commentsCache, commentHist, friendVars>>

\* SquareView loaded and the comment panel of SrvId(0) open, its (empty)
\* comment list fetched
InitPanel ==
  /\ InitCommon
  /\ posts = <<MkPost(SrvId(0), Other, 1, 0, FALSE)>>
  /\ PageLoaded(posts)
  /\ postsCache = <<[data |-> posts, timestamp |-> 0]>>
  /\ commentsCache = <<[post |-> SrvId(0), data |-> <<>>, timestamp |-> 0]>>
  /\ tab = "square"
  /\ tasks = {}

NextComments ==
  \/ CommentSubmit
  \/ \E t \in tasks : CommentAuth(t)
  \/ \E t \in tasks : CommentAtServer(t)
  \/ \E t \in tasks : CommentResolve(t)
  \/ RtCommentsDeliver

SpecComments == InitPanel /\ [][NextComments]_vars

\* ------------------------------------------ the handlers with nobody signed in
\* getUser has resolved with user: null and the handler of the given kind
\* ends there: if (authUser) { ... } is skipped in the like and bookmark
\* onClick and in the submit of CommentModal, publishPost returns
ReturnsSignedOut(t, kind) ==
  /\ ~session
  /\ t.kind = kind /\ t.pc = "auth"
  /\ tasks' = tasks \ {t}
  /\ UNCHANGED <<now, pageVars, posts, postsCache, srvVars, rtPosts, cnt, histVars,
                 likeVars, commentVars, friendVars>>

\* the feed and the comment panel of its post are open, nobody is signed in
InitSignedOut ==
  /\ InitServer
  /\ InitView
  /\ NoFriendsYet
  /\ session = FALSE
  /\ resultStatus = <<>>
  /\ posts = <<MkPost(SrvId(0), Other, 1, 0, FALSE)>>
  /\ PageLoaded(posts)
  /\ postsCache = <<[data |-> posts, timestamp |-> 0]>>
  /\ commentsCache = <<[post |-> SrvId(0), data |-> <<>>, timestamp |-> 0]>>
  /\ tab = "square"
  /\ tasks = {}

NextSignedOut ==
  \/ LikeClick
  \/ BookmarkClick
  \/ CommentSubmit
  \/ PublishClick
  \/ \E t \in tasks : ReturnsSignedOut(t, "like")
  \/ \E t \in tasks : ReturnsSignedOut(t, "bookmark")
  \/ \E t \in tasks : ReturnsSignedOut(t, "comment")
  \/ \E t \in tasks : ReturnsSignedOut(t, "publish")

SpecSignedOut == InitSignedOut /\ [][NextSignedOut]_vars

\* ------------------------------------------------- FriendsView.handleSearch
Digits == {"0", "1", "2", "3", "4", "5", "6", "7", "8", "9"}

Uid1 == <<"1", "2", "3", "4", "5", "6", "7", "8">>
Uid2 == <<"8", "7", "6", "5", "4", "3", "2", "1">>

\* remote profiles table, in the order the store returns its rows
Profiles ==
  << [id |-> Me,   uid |-> Uid2,  name |-> <<"a", "b">>],
     [id |-> "u1", uid |-> Uid1,  name |-> <<"A", "b">>],
     [id |-> "u2", uid |-> Uid2,  name |-> <<"c", "a">>],
     [id |-> "u3", uid |-> Uid2,  name |-> <<"b">>] >>

\* what the user may have typed into the add-friend input
Queries == {<<>>, <<" ">>, <<"a">>, <<"a", "b">>, Uid1}

\* query.trim() is empty
IsBlank(query) == \A i \in 1..Len(query) : query[i] = " "

\* /^\d{8}$/.test(query)
IsUid(query) == Len(query) = UidLen /\ \A i \in 1..Len(query) : query[i] \in Digits

Lower(c) == IF c = "A" THEN "a" ELSE IF c = "B" THEN "b"
            ELSE IF c = "C" THEN "c" ELSE c

\* name ILIKE %query% : case-insensitive substring
ILike(name, query) ==
  \E k \in 0..(Len(name) - Len(query)) :
    \A i \in 1..Len(query) : Lower(name[k + i]) = Lower(query[i])

IdsOf(rows) == [i \in 1..Len(rows) |-> rows[i].id]

MatchesQuery(p, query, currentUserId) ==
  /\ p.id # currentUserId
  /\ IF IsUid(query) THEN p.uid = query ELSE ILike(p.name, query)

\* friendService.searchUsers on success: the ids of the rows it returns
SearchUsersResult(query, currentUserId) ==
  IF IsBlank(query) THEN <<>>
  ELSE IdsOf(Take(SelectSeq(Profiles,
                            LAMBDA p : MatchesQuery(p, query, currentUserId)),
                  SearchLimit))

\* a response handler that skips the sequence test
IsLatestAny(currentSeq) == TRUE

\* currentSeq === searchSeqRef.current
IsLatest(currentSeq) == currentSeq = searchSeqRef

\* a finally block that clears the flag only when the search had answered
ClearsOnAnswer(currentSeq, pc) == pc = "answered" /\ IsLatest(currentSeq)

\* finally { if (currentSeq === searchSeqRef.current) setIsSearching(false) }
ClearsSpinner(currentSeq, pc) == IsLatest(currentSeq)

SearchTasks == {t \in tasks : t.kind = "search"}

\* handleSearch(query): the input changes; a pending timer is cleared; a
\* blank query clears the results, any other arms the debounce timer
HandleSearch(query) ==
  /\ addFriendId # query
  /\ addFriendId' = query
  /\ IF IsBlank(query)
     THEN /\ searchTimeoutRef' = <<>>
          /\ searchResults' = <<>>
          /\ isSearching' = FALSE
          /\ shownSeq' = [shownSeq EXCEPT !.seq = 0, !.query = <<>>]
     ELSE /\ searchTimeoutRef' = <<query>>
          /\ UNCHANGED <<searchResults, isSearching, shownSeq>>
  /\ UNCHANGED <<squareVars, tasks, cnt, friends, isReminded, friendsCache, srvFriendships,
                 loadHist, latestFetch, envVars, searchSeqRef>>

\* the debounce timer fires: the request takes the next sequence number
SearchTimerFire ==
  /\ searchTimeoutRef # <<>>
  /\ cnt.search < MaxSearch
  /\ cnt' = Bump("search")
  /\ searchTimeoutRef' = <<>>
  /\ searchSeqRef' = searchSeqRef + 1
  /\ isSearching' = TRUE
  /\ tasks' = tasks \cup
       {[Task(Tid("search", searchSeqRef + 1, 0), "search", "auth", NoId, NoId)
           EXCEPT !.seq = searchSeqRef + 1, !.query = searchTimeoutRef[1]]}
  /\ UNCHANGED <<squareVars, friends, isReminded, friendsCache, srvFriendships, loadHist, latestFetch,
                 envVars, addFriendId, searchResults, shownSeq>>

\* await supabase.auth.getUser() settles, searchUsers sends its select
SearchAuth(t) ==
  /\ t.kind = "search" /\ t.pc = "auth"
  /\ \/ /\ tasks' = Step(t, [t EXCEPT !.pc = "query"])
        /\ UNCHANGED cnt
     \/ /\ MayFail
        /\ cnt' = Bump("fail")
        /\ tasks' = Step(t, [t EXCEPT !.pc = "failed", !.failed = TRUE])
  /\ UNCHANGED <<squareVars, friendVars>>

\* the remote store answers the profiles select: rows, an error (searchUsers
\* returns []), or the call rejects
SearchAtServer(t) ==
  /\ t.kind = "search" /\ t.pc = "query"
  /\ \/ /\ tasks' = Step(t, [t EXCEPT !.pc = "answered",
                                      !.full = SearchUsersResult(t.query, Me)])
        /\ UNCHANGED cnt
     \/ /\ MayFail
        /\ cnt' = Bump("fail")
        /\ \/ tasks' = Step(t, [t EXCEPT !.pc = "answered", !.full = <<>>,
                                         !.failed = TRUE])
           \/ tasks' = Step(t, [t EXCEPT !.pc = "failed", !.failed = TRUE])
  /\ UNCHANGED <<squareVars, friendVars>>

\* the timer callback resumes: results are written if the request is still
\* the latest; finally clears isSearching under the same test
SearchRespond(t) ==
  /\ t.kind = "search" /\ t.pc \in {"answered", "failed"}
  /\ tasks' = tasks \ {t}
  /\ IF t.pc = "answered" /\ IsLatest(t.seq)
     THEN /\ searchResults' = t.full
          /\ shownSeq' = [shownSeq EXCEPT !.seq = t.seq, !.query = t.query]
     ELSE /\ UNCHANGED searchResults
          /\ shownSeq' = IF t.pc = "answered"
                         THEN [shownSeq EXCEPT !.dropped = t.seq]
                         ELSE shownSeq
  /\ isSearching' = IF ClearsSpinner(t.seq, t.pc) THEN FALSE ELSE isSearching
  /\ UNCHANGED <<squareVars, cnt, friends, isReminded, friendsCache, srvFriendships,
                 loadHist, latestFetch, envVars, addFriendId, searchTimeoutRef,
                 searchSeqRef>>

\* FriendsView with the add-friend dialog open and nothing typed
InitSearch ==
  /\ InitCommon
  /\ posts = <<>>
  /\ PageFresh
  /\ postsCache = <<>>
  /\ commentsCache = <<>>
  /\ tab = "friends"
  /\ tasks = {}

NextSearch ==
  \/ \E query \in Queries : HandleSearch(query)
  \/ SearchTimerFire
  \/ \E t \in tasks : SearchAuth(t)
  \/ \E t \in tasks : SearchAtServer(t)
  \/ \E t \in tasks : SearchRespond(t)

SpecSearch == InitSearch /\ [][NextSearch]_vars

\* ------------------------------------------- view mounts and loadFriends
\* SquareView is mounted (again): fresh state, then useEffect runs loadPosts
MountSquare ==
  /\ tab = "square"
  /\ cnt.mount < MaxMount
  /\ cnt' = Bump("mount")
  /\ posts' = LoadPostsShown(<<>>)
  /\ page' = 0 /\ hasMore' = TRUE /\ isLoadingMore' = FALSE
  /\ tasks' = LoadPostsTasks(tasks, Tid("mount", cnt.mount + 1, 0))
  /\ loadHist' =
       IF postsCache # <<>>
       THEN [loadHist EXCEPT !["posts"] =
               <<[age |-> now - postsCache[1].timestamp,
                  shown |-> posts' = postsCache[1].data,
                  count |-> Cardinality(tasks' \ tasks),
                  forced |-> \A t \in tasks' \ tasks :
                               t.force /\ t.pc = "fetch"]>>]
       ELSE loadHist
  /\ UNCHANGED <<now, postsCache, srvVars, rtPosts, histVars, likeVars,
                 latestFetch, commentVars, friends, isReminded, friendsCache, srvFriendships, envVars,
                 searchVars>>

\* friendService.getFriends on success: the accepted friends' profiles
GetFriendsResult ==
  SelectSeq(IdsOf(Profiles),
            LAMBDA id : \E r \in srvFriendships :
                          /\ r.status = "accepted"
                          /\ Me \in {r.user_id, r.friend_id}
                          /\ id = (IF r.user_id = Me THEN r.friend_id
                                   ELSE r.user_id))

\* getFriends step 4: the friends that a STUDY_REMINDER row of the last 24
\* hours, sent by the user, names; the mapped profiles carry it as isReminded
RemindedFriends ==
  {r.user_id : r \in {q \in srvReminders : /\ q.sender_id = Me
                                           /\ q.created_at > now - DayMs}}
    \cap {GetFriendsResult[i] : i \in 1..Len(GetFriendsResult)}

\* friendService.getFriends(userId, forceRefresh) up to its first await
GetFriendsCall(tid, forceRefresh) ==
  IF ~forceRefresh /\ friendsCache # <<>>
     /\ now - friendsCache[1].timestamp < CacheTtl
  THEN [Task(tid, "getFriends", "cached", NoId, NoId)
          EXCEPT !.snap = friendsCache[1].data,
                 !.reminded = friendsCache[1].reminded]
  ELSE [Task(tid, "getFriends", "fetch", NoId, NoId)
          EXCEPT !.force = forceRefresh]

\* the synchronous part of loadFriends(): what it shows and what it starts
LoadFriendsShown(cur) ==
  IF friendsCache # <<>> THEN friendsCache[1].data ELSE cur

LoadFriendsReminded ==
  IF friendsCache # <<>> THEN friendsCache[1].reminded ELSE {}

LoadFriendsFetches ==
  IF friendsCache # <<>>
  THEN now - friendsCache[1].timestamp > FriendsFreshMs
  ELSE TRUE

LoadFriendsTasks(cur, tid) ==
  IF LoadFriendsFetches THEN cur \cup {GetFriendsCall(tid, TRUE)} ELSE cur

\* FriendsView is mounted (again): fresh state, then useEffect runs
\* loadFriends
MountFriends ==
  /\ tab = "friends"
  /\ cnt.mount < MaxMount
  /\ cnt' = Bump("mount")
  /\ friends' = LoadFriendsShown(<<>>)
  /\ isReminded' = LoadFriendsReminded
  /\ tasks' = LoadFriendsTasks(tasks, Tid("mountF", cnt.mount + 1, 0))
  /\ loadHist' =
       IF friendsCache # <<>>
       THEN [loadHist EXCEPT !["friends"] =
               <<[age |-> now - friendsCache[1].timestamp,
                  shown |-> friends' = friendsCache[1].data,
                  count |-> Cardinality(tasks' \ tasks),
                  forced |-> \A t \in tasks' \ tasks :
                               t.force /\ t.pc = "fetch"]>>]
       ELSE loadHist
  /\ UNCHANGED <<squareVars, friendsCache, srvFriendships, latestFetch,
                 envVars, searchVars>>

\* getFriends: the remote store answers the selects (or the first fails:
\* the service logs and returns [])
GetFriendsFetch(t) ==
  /\ t.kind = "getFriends" /\ t.pc = "fetch"
  /\ \/ /\ tasks' = Step(t, [t EXCEPT !.pc = "resolve",
                                      !.snap = GetFriendsResult,
                                      !.reminded = RemindedFriends])
        /\ UNCHANGED cnt
     \/ /\ MayFail
        /\ cnt' = Bump("fail")
        /\ tasks' = Step(t, [t EXCEPT !.pc = "resolve", !.ok = FALSE])
  /\ UNCHANGED <<squareVars, friendVars>>

\* a fetch is named <<"mountF", mount, event>> after the mount it belongs to
\* and the event that started it (0 for loadFriends): fetch tid was issued
\* after every fetch recorded in hist
IssuedAfter(tid, hist) ==
  \A h \in {hist[i] : i \in 1..Len(hist)} :
    \/ h.tid[2] < tid[2]
    \/ h.tid[2] = tid[2] /\ h.tid[3] < tid[3]

\* getFriends returns: the cache entry is written (unless the call failed or
\* found no connection) and the caller runs setFriends(freshList)
GetFriendsResolve(t) ==
  /\ t.kind = "getFriends" /\ t.pc \in {"resolve", "cached"}
  /\ friendsCache' = IF t.pc = "resolve" /\ t.ok /\ t.snap # <<>>
                     THEN <<[data |-> t.snap, timestamp |-> now,
                             reminded |-> t.reminded]>>
                     ELSE friendsCache
  /\ friends' = IF Mounted(t) THEN t.snap ELSE friends
  /\ isReminded' = IF Mounted(t) THEN t.reminded ELSE isReminded
  /\ latestFetch' =
       IF t.pc = "resolve" /\ IssuedAfter(t.tid, latestFetch)
       THEN <<[tid |-> t.tid, data |-> t.snap, ok |-> t.ok]>>
       ELSE latestFetch
  /\ tasks' = tasks \ {t}
  /\ UNCHANGED <<squareVars, cnt, srvFriendships, loadHist, envVars,
                 searchVars>>

\* the clock steps of the load scenarios: 10 s stays inside the window, three
\* of them reach its edge, 10 s and 21 s together pass it
TickSteps == {10000, 21000}

NextLoad ==
  \/ MountSquare
  \/ \E t \in tasks : GetPostsFetch(t)
  \/ \E t \in tasks : GetPostsResolve(t)
  \/ MountFriends
  \/ \E t \in tasks : GetFriendsFetch(t)
  \/ \E t \in tasks : GetFriendsResolve(t)
  \/ \E d \in TickSteps : Tick(d, MaxLoadTicks)

\* FriendsView just mounted with no cache: loadFriends is awaiting getFriends
InitFriends ==
  /\ InitCommon
  /\ posts = <<>>
  /\ PageFresh
  /\ postsCache = <<>>
  /\ commentsCache = <<>>
  /\ tab = "friends"
  /\ tasks = {GetFriendsCall(Tid("mountF", 0, 0), TRUE)}

\* The two views share no state: the loads of each are followed on their own.
InitLoad == Init \/ InitFriends

SpecLoad == InitLoad /\ [][NextLoad]_vars

\* ------------------------------------------------- friend requests
AddTasks == {t \in tasks : t.kind = "addFriend"}

\* a change of the friendships table reaches the realtime_friendships
\* channel, which exists while FriendsView is mounted
\* The payload carries the parties (user_id, friend_id) of its new and of
\* its old row, {} for a row that is absent or comes with its key only.
FriendshipEvent(queue, type, new, old) ==
  IF tab = "friends"
  THEN Append(queue, [type |-> type, new |-> new, old |-> old])
  ELSE queue

\* payload.old of a DELETE: the whole row when the table's replica identity
\* is full, the primary key alone otherwise
OldPayloads(parties) == {parties, {}}

\* an involvement test that looks at payload.new only
IsInvolvedNew(e) == Me \in e.new

\* isInvolved of the realtime_friendships handler
IsInvolved(e) == Me \in e.new \/ Me \in e.old

\* the add button is rendered for a result that is neither accepted nor pending
AddButtonShown(id) ==
  id \in DOMAIN resultStatus /\ resultStatus[id] \notin {"accepted", "pending"}

\* click on the add button of a search result: handleAddSubmit awaits
\* getUser; the task keeps targetId as <<targetId, 0>>
AddClick ==
  /\ tab = "friends"
  /\ cnt.request < MaxRequests
  /\ cnt' = Bump("request")
  /\ \E id \in DOMAIN resultStatus :
       /\ AddButtonShown(id)
       /\ tasks' = tasks \cup {Task(Tid("addFriend", cnt.request + 1, 0),
                                    "addFriend", "auth", <<id, 0>>, NoId)}
  /\ UNCHANGED <<squareVars, friends, isReminded, friendsCache, srvFriendships, loadHist, latestFetch,
                 envVars, searchVars>>

\* after await getUser: sendFriendRequest sends its insert
AddAuth(t) ==
  /\ t.kind = "addFriend" /\ t.pc = "auth" /\ session
  /\ tasks' = Step(t, [t EXCEPT !.pc = "insert"])
  /\ UNCHANGED <<squareVars, cnt, friends, isReminded, friendsCache, srvFriendships,
                 loadHist, latestFetch, envVars, searchVars>>

\* the remote store serves the insert of sendFriendRequest (or fails)
AddAtServer(t) ==
  /\ t.kind = "addFriend" /\ t.pc = "insert"
  /\ \/ /\ srvFriendships' = srvFriendships \cup
                               {Friendship(cnt.row + 1, Me, t.id[1], "pending")}
        /\ rtFriends' = FriendshipEvent(rtFriends, "INSERT", {Me, t.id[1]}, {})
        /\ cnt' = Bump("row")
        /\ tasks' = Step(t, [t EXCEPT !.pc = "sent"])
     \/ /\ MayFail
        /\ cnt' = Bump("fail")
        /\ tasks' = Step(t, [t EXCEPT !.pc = "sent", !.failed = TRUE])
        /\ UNCHANGED <<srvFriendships, rtFriends>>
  /\ UNCHANGED <<squareVars, friends, isReminded, friendsCache, loadHist, latestFetch, tab, session, selectorVars, appVars,
                 srvBookmarks, composerVars,
                 resultStatus, rtProfiles, searchVars>>

\* sendFriendRequest has returned (the result is marked pending) or thrown
\* (toast only)
AddResolve(t) ==
  /\ t.kind = "addFriend" /\ t.pc = "sent"
  /\ resultStatus' = IF ~t.failed /\ t.id[1] \in DOMAIN resultStatus
                     THEN [resultStatus EXCEPT ![t.id[1]] = "pending"]
                     ELSE resultStatus
  /\ tasks' = tasks \ {t}
  /\ UNCHANGED <<squareVars, cnt, friends, isReminded, friendsCache, srvFriendships,
                 loadHist, latestFetch, tab, session, selectorVars, appVars, srvBookmarks, composerVars,
                 rtFriends, rtProfiles, searchVars>>

\* another user sends a request to the user
OtherRequest ==
  /\ cnt.otherRequest < MaxOtherRequests
  /\ cnt' = [cnt EXCEPT !.otherRequest = @ + 1, !.row = @ + 1]
  /\ \E id \in DOMAIN resultStatus :
       /\ srvFriendships' = srvFriendships \cup
                              {Friendship(cnt.row + 1, id, Me, "pending")}
       /\ rtFriends' = FriendshipEvent(rtFriends, "INSERT", {id, Me}, {})
  /\ UNCHANGED <<squareVars, tasks, friends, isReminded, friendsCache, loadHist, latestFetch, tab,
                 session, selectorVars, appVars, srvBookmarks, composerVars,
                 resultStatus, rtProfiles, searchVars>>

\* an update that leaves out eq('friend_id', userId)
RespondMatchesAny(rows, friendshipId, userId) ==
  {r \in rows : r.id = friendshipId}

\* the rows update ... eq('id', friendshipId).eq('friend_id', userId) matches
RespondMatches(rows, friendshipId, userId) ==
  {r \in rows : r.id = friendshipId /\ r.friend_id = userId}

\* respondToFriendRequest as the store runs it: update ... eq(id) eq(friend_id)
RespondUpdate(rows, friendshipId, userId, status) ==
  {IF r \in RespondMatches(rows, friendshipId, userId)
   THEN [r EXCEPT !.status = status] ELSE r : r \in rows}

\* the other user answers a request of the user on their own device
\* (NotificationView.handleAction there)
OtherRespond ==
  /\ cnt.otherRespond < MaxOtherResponds
  /\ cnt' = Bump("otherRespond")
  /\ \E r \in srvFriendships, status \in {"accepted", "rejected"} :
       /\ r.user_id = Me /\ r.status = "pending"
       /\ srvFriendships' = RespondUpdate(srvFriendships, r.id, r.friend_id,
                                          status)
       /\ rtFriends' = FriendshipEvent(rtFriends, "UPDATE",
                                       {r.user_id, r.friend_id}, {})
  /\ UNCHANGED <<squareVars, tasks, friends, isReminded, friendsCache, loadHist, latestFetch, tab,
                 session, selectorVars, appVars, srvBookmarks, composerVars,
                 resultStatus, rtProfiles, searchVars>>

\* realtime_friendships handler: after await getUser, if the user is a
\* party of the new or old row, the list is fetched again with forceRefresh
RtFriendsDeliver ==
  /\ rtFriends # <<>>
  /\ rtFriends' = Tail(rtFriends)
  /\ cnt' = Bump("event")
  /\ tasks' = IF session /\ IsInvolved(Head(rtFriends))
              THEN tasks \cup {GetFriendsCall(Tid("mountF", cnt.mount,
                                                  cnt.event + 1), TRUE)}
              ELSE tasks
  /\ UNCHANGED <<squareVars, friends, isReminded, friendsCache, srvFriendships, loadHist, latestFetch,
                 tab, session, selectorVars, appVars, srvBookmarks, composerVars,
                 resultStatus, rtProfiles, searchVars>>

\* the user leaves the friends tab: FriendsView unmounts, its effect cleanup
\* removes the channels
LeaveFriends ==
  /\ tab = "friends"
  /\ tab' = "square"
  /\ rtFriends' = <<>>
  /\ rtProfiles' = <<>>
  /\ UNCHANGED <<squareVars, tasks, cnt, friends, isReminded, friendsCache, srvFriendships,
                 loadHist, latestFetch, session, selectorVars, appVars, srvBookmarks, composerVars,
                 resultStatus, searchVars>>

\* the user opens the friends tab: FriendsView mounts, useEffect runs
\* loadFriends and subscribes
OpenFriends ==
  /\ tab = "square"
  /\ cnt.mount < MaxMount
  /\ tab' = "friends"
  /\ cnt' = Bump("mount")
  /\ friends' = LoadFriendsShown(<<>>)
  /\ isReminded' = LoadFriendsReminded
  /\ tasks' = LoadFriendsTasks(tasks, Tid("mountF", cnt.mount + 1, 0))
  /\ UNCHANGED <<squareVars, friendsCache, srvFriendships, loadHist, latestFetch, session, selectorVars, appVars,
                 srvBookmarks, composerVars,
                 rtFriends, resultStatus, rtProfiles, searchVars>>

\* FriendsView just mounted with no cache, a search result of a stranger on
\* display
InitRequests ==
  /\ InitServer
  /\ InitView
  /\ NoFriendsYet
  /\ session = TRUE
  /\ resultStatus = [id \in {"u2"} |-> "none"]
  /\ posts = <<>>
  /\ PageFresh
  /\ postsCache = <<>>
  /\ commentsCache = <<>>
  /\ tab = "friends"
  /\ tasks = {GetFriendsCall(Tid("mountF", 0, 0), TRUE)}

NextRequests ==
  \/ AddClick
  \/ \E t \in tasks : AddAuth(t)
  \/ \E t \in tasks : AddAtServer(t)
  \/ \E t \in tasks : AddResolve(t)
  \/ OtherRequest
  \/ RtFriendsDeliver
  \/ \E t \in tasks : GetFriendsFetch(t)
  \/ \E t \in tasks : GetFriendsResolve(t)

SpecRequests == InitRequests /\ [][NextRequests]_vars

\* the round trip of a request, the user moving between the tabs; no time
\* passes, so every load falls into the freshness window of the last fetch
NextRoundTrip ==
  \/ AddClick
  \/ \E t \in tasks : AddAuth(t)
  \/ \E t \in tasks : AddAtServer(t)
  \/ \E t \in tasks : AddResolve(t)
  \/ OtherRespond
  \/ RtFriendsDeliver
  \/ LeaveFriends
  \/ OpenFriends
  \/ \E t \in tasks : GetFriendsFetch(t)
  \/ \E t \in tasks : GetFriendsResolve(t)

\* FriendsView after its first load, a search result of a stranger on display
InitRoundTrip ==
  /\ InitServer
  /\ InitView
  /\ friends = GetFriendsResult
  /\ friendsCache = <<[data |-> friends, timestamp |-> 0, reminded |-> {}]>>
  /\ session = TRUE
  /\ resultStatus = [id \in {"u2"} |-> "none"]
  /\ posts = <<>>
  /\ PageFresh
  /\ postsCache = <<>>
  /\ commentsCache = <<>>
  /\ tab = "friends"
  /\ tasks = {}

SpecRoundTrip == InitRoundTrip /\ [][NextRoundTrip]_vars

\* ------------------------------------------------- counts specification
\* likes of the user and of others while the post's author edits the post
NextCounts ==
  \/ LikeClick
  \/ \E t \in tasks : LikeAuth(t)
  \/ \E t \in tasks : LikeSelect(t)
  \/ \E t \in tasks : LikeWrite(t)
  \/ \E t \in tasks : LikeResolve(t)
  \/ \E t \in tasks : LikeRollback(t)
  \/ RtLikesDeliver
  \/ OtherUserLike
  \/ ServerUpdatePost
  \/ RtPostsDeliver
  \/ \E t \in tasks : FetchPost(t)
  \/ \E t \in tasks : RtUpdateApply(t)

SpecCounts == InitLoaded /\ [][NextCounts]_vars

\* ------------------------------------------------- delete specification
DeleteTasks == {t \in tasks : t.kind = "delete"}

\* SquareView loaded, two of the three posts on the server the user's own
InitOwn ==
  /\ InitClient
  /\ srvPosts = <<[id |-> SrvId(2), owner |-> Me], [id |-> SrvId(1), owner |-> Me],
                  [id |-> SrvId(0), owner |-> Other]>>
  /\ srvLikes = {<<SrvId(0), Other>>}
  /\ srvComments = {}
  /\ srvBookmarks = {}
  /\ posts = GetPostsResult
  /\ PageLoaded(posts)
  /\ postsCache = <<[data |-> posts, timestamp |-> 0]>>
  /\ commentsCache = <<>>
  /\ tab = "square"
  /\ tasks = {}

\* deletes by the user, edits of posts, and the posts channel
NextDelete ==
  \/ DeleteClick
  \/ \E t \in tasks : DeleteAtServer(t)
  \/ \E t \in tasks : DeleteResolve(t)
  \/ ServerUpdatePost
  \/ RtPostsDeliver
  \/ \E t \in tasks : FetchPost(t)
  \/ \E t \in tasks : RtUpdateApply(t)

SpecDelete == InitOwn /\ [][NextDelete]_vars

\* --------------------------------------------------- feed specification
NextPosts ==
  \/ \E t \in tasks : GetPostsFetch(t)
  \/ \E t \in tasks : GetPostsResolve(t)
  \/ PublishClick
  \/ \E t \in tasks : PublishOptimistic(t)
  \/ \E t \in tasks : CreateAtServer(t)
  \/ \E t \in tasks : CreateResolve(t)
  \/ \E t \in tasks : PublishRollback(t)
  \/ \E t \in tasks : FetchPost(t)
  \/ \E t \in tasks : PublishApply(t)
  \/ RtPostsDeliver
  \/ RtPostsRedeliver
  \/ \E t \in tasks : RtInsertApply(t)
  \/ \E t \in tasks : RtUpdateApply(t)
  \/ ServerUpdatePost
  \/ DeleteClick
  \/ \E t \in tasks : DeleteAtServer(t)
  \/ \E t \in tasks : DeleteResolve(t)
  \/ Tick(FreshMs + 1, MaxTicks)

SpecPosts == Init /\ [][NextPosts]_vars

\* publish and realtime INSERT only: the part of the feed the INSERT merge
\* rule is about
NextInsert ==
  \/ \E t \in tasks : GetPostsFetch(t)
  \/ \E t \in tasks : GetPostsResolve(t)
  \/ PublishClick
  \/ \E t \in tasks : PublishOptimistic(t)
  \/ \E t \in tasks : CreateAtServer(t)
  \/ \E t \in tasks : CreateResolve(t)
  \/ \E t \in tasks : PublishRollback(t)
  \/ \E t \in tasks : FetchPost(t)
  \/ \E t \in tasks : PublishApply(t)
  \/ RtPostsDeliver
  \/ RtPostsRedeliver
  \/ \E t \in tasks : RtInsertApply(t)

SpecInsert == InitLoaded /\ [][NextInsert]_vars

\* ------------------------------------------------- composer: image upload
\* the urls of the next n files, numbered in the order they are picked
ImageUrls(n) == [i \in 1..n |-> <<"img", cnt.image + i>>]

Range(s) == {s[i] : i \in 1..Len(s)}

UploadTasks == {t \in tasks : t.kind = "upload"}

\* a limit test that looks at the picked files only
TooManyPicked(attached, n) == n > MaxImages

\* handleImageSelect: newPostImages.length + files.length > 3
TooMany(attached, n) == attached + n > MaxImages

\* handleImageSelect up to await getUser; the picker button is disabled while
\* an upload runs or three images are attached; max bounds the uses of the
\* picker
SelectImages(max) ==
  /\ ~isUploadingImages /\ Len(newPostImages) < MaxImages
  /\ cnt.select < max
  /\ \E n \in 1..MaxFiles :
       IF TooMany(Len(newPostImages), n)
       THEN /\ toast' = "max"
            /\ cnt' = Bump("select")
            /\ UNCHANGED <<isUploadingImages, tasks>>
       ELSE /\ isUploadingImages' = TRUE
            /\ cnt' = [cnt EXCEPT !.select = @ + 1, !.image = @ + n]
            /\ tasks' = tasks \cup
                 {[Task(Tid("upload", cnt.select + 1, 0), "upload", "auth",
                        NoId, NoId) EXCEPT !.images = ImageUrls(n)]}
            /\ UNCHANGED toast
  /\ UNCHANGED <<squareVars, friends, isReminded, friendsCache, srvFriendships, loadHist, latestFetch,
                 searchVars, tab, session, selectorVars, appVars, srvBookmarks, requestVars,
                 newPostImages, storage>>

ImageSelect == SelectImages(MaxSelects)

\* click on the x of an attached image:
\* setNewPostImages(newPostImages.filter((_, i) => i !== idx))
RemoveImage ==
  /\ \E idx \in 1..Len(newPostImages) :
       newPostImages' = [i \in 1..Len(newPostImages) - 1 |->
                           IF i < idx THEN newPostImages[i]
                           ELSE newPostImages[i + 1]]
  /\ UNCHANGED <<squareVars, tasks, cnt, friends, isReminded, friendsCache, srvFriendships,
                 loadHist, latestFetch, searchVars, tab, session, selectorVars, appVars, srvBookmarks, requestVars,
                 isUploadingImages, storage, toast>>

\* after await getUser: the uploads start, or with no user the handler
\* returns through its finally block
UploadAuth(t) ==
  /\ t.kind = "upload" /\ t.pc = "auth"
  /\ IF session
     THEN /\ tasks' = Step(t, [t EXCEPT !.pc = "upload"])
          /\ UNCHANGED isUploadingImages
     ELSE /\ tasks' = tasks \ {t}
          /\ isUploadingImages' = FALSE
  /\ UNCHANGED <<squareVars, cnt, friends, isReminded, friendsCache, srvFriendships,
                 loadHist, latestFetch, searchVars, tab, session, selectorVars, appVars, srvBookmarks, requestVars,
                 newPostImages, storage, toast>>

\* the storage serves the uploads: all complete, or one fails after some of
\* the others have completed and Promise.all rejects
UploadAtStorage(t) ==
  /\ t.kind = "upload" /\ t.pc = "upload"
  /\ \/ /\ storage' = storage \cup Range(t.images)
        /\ tasks' = Step(t, [t EXCEPT !.pc = "uploaded"])
        /\ UNCHANGED cnt
     \/ /\ MayFail
        /\ cnt' = Bump("fail")
        /\ \E done \in SUBSET Range(t.images) :
             /\ done # Range(t.images)
             /\ storage' = storage \cup done
        /\ tasks' = Step(t, [t EXCEPT !.pc = "uploaded", !.failed = TRUE])
  /\ UNCHANGED <<squareVars, friends, isReminded, friendsCache, srvFriendships, loadHist, latestFetch,
                 searchVars, tab, session, selectorVars, appVars, srvBookmarks, requestVars,
                 isUploadingImages, newPostImages, toast>>

\* Promise.all has settled: the urls are attached (or the catch block shows
\* a toast), finally clears the flag
UploadResolve(t) ==
  /\ t.kind = "upload" /\ t.pc = "uploaded"
  /\ newPostImages' = IF t.failed THEN newPostImages
                      ELSE newPostImages \o t.images
  /\ toast' = IF t.failed THEN "uploadFailed" ELSE toast
  /\ isUploadingImages' = FALSE
  /\ tasks' = tasks \ {t}
  /\ UNCHANGED <<squareVars, cnt, friends, isReminded, friendsCache, srvFriendships,
                 loadHist, latestFetch, searchVars, tab, session, selectorVars, appVars, srvBookmarks, requestVars,
                 storage>>

\* publishPost while an upload runs: a toast and nothing else
PublishRejected ==
  /\ ~CanPublish
  /\ toast # "uploading"
  /\ toast' = "uploading"
  /\ UNCHANGED <<squareVars, tasks, cnt, friends, isReminded, friendsCache, srvFriendships,
                 loadHist, latestFetch, searchVars, tab, session, selectorVars, appVars, srvBookmarks, requestVars,
                 isUploadingImages, newPostImages, storage>>

\* the toast timer runs out
ToastExpire ==
  /\ toast # ""
  /\ toast' = ""
  /\ UNCHANGED <<squareVars, tasks, cnt, friends, isReminded, friendsCache, srvFriendships,
                 loadHist, latestFetch, searchVars, tab, session, selectorVars, appVars, srvBookmarks, requestVars,
                 isUploadingImages, newPostImages, storage>>

\* The composer and publishPost.  The handlers of the posts channel neither
\* read nor write the composer and are followed in the feed specifications.
NextCompose ==
  \/ ImageSelect
  \/ \E t \in tasks : UploadAuth(t)
  \/ \E t \in tasks : UploadAtStorage(t)
  \/ \E t \in tasks : UploadResolve(t)
  \/ PublishRejected
  \/ ToastExpire
  \/ PublishClick
  \/ \E t \in tasks : PublishOptimistic(t)
  \/ \E t \in tasks : CreateAtServer(t)
  \/ \E t \in tasks : CreateResolve(t)
  \/ \E t \in tasks : PublishRollback(t)
  \/ \E t \in tasks : FetchPost(t)
  \/ \E t \in tasks : PublishApply(t)
  \/ \E t \in tasks : GetPostsFetch(t)
  \/ \E t \in tasks : GetPostsResolve(t)

SpecCompose == InitLoaded /\ [][NextCompose]_vars

\* the image list of the composer alone: selections, uploads, removals
NextImages ==
  \/ SelectImages(MaxPicks)
  \/ \E t \in tasks : UploadAuth(t)
  \/ \E t \in tasks : UploadAtStorage(t)
  \/ \E t \in tasks : UploadResolve(t)
  \/ RemoveImage
  \/ ToastExpire

SpecImages == InitLoaded /\ [][NextImages]_vars

\* ------------------------------------------------- caches never loaded
\* the feed is rendered while postsCache is null (createPost has just
\* cleared it) and the comment panel is open on a list that getComments
\* could not fetch (it returned [] without a cache entry)
InitUnloaded ==
  /\ InitClient
  /\ srvPosts = <<[id |-> SrvId(1), owner |-> Me],
                  [id |-> SrvId(0), owner |-> Other]>>
  /\ srvLikes = {<<SrvId(0), Other>>}
  /\ srvComments = {}
  /\ srvBookmarks = {}
  /\ posts = GetPostsResult
  /\ PageLoaded(posts)
  /\ postsCache = <<>>
  /\ commentsCache = <<>>
  /\ tab = "square"
  /\ tasks = {}

\* no handler of the feed is in flight
Idle == tasks = {}

\* the user starts a mutation when the one before has returned
NextUnloaded ==
  \/ Idle /\ LikeClick
  \/ \E t \in tasks : LikeAuth(t)
  \/ \E t \in tasks : LikeSelect(t)
  \/ \E t \in tasks : LikeWrite(t)
  \/ \E t \in tasks : LikeResolve(t)
  \/ \E t \in tasks : LikeRollback(t)
  \/ Idle /\ BookmarkClick
  \/ \E t \in tasks : BookmarkAuth(t)
  \/ \E t \in tasks : BookmarkSelect(t)
  \/ \E t \in tasks : BookmarkWrite(t)
  \/ \E t \in tasks : BookmarkResolve(t)
  \/ Idle /\ CommentSubmit
  \/ \E t \in tasks : CommentAuth(t)
  \/ \E t \in tasks : CommentAtServer(t)
  \/ \E t \in tasks : CommentResolve(t)
  \/ Idle /\ DeleteClick
  \/ \E t \in tasks : DeleteAtServer(t)
  \/ \E t \in tasks : DeleteResolve(t)

SpecUnloaded == InitUnloaded /\ [][NextUnloaded]_vars

\* ------------------------------------------------- EditPostModal onSave
\* the edit menu is offered on the user's own posts; onSave awaits updatePost
EditSave ==
  /\ tab = "square"
  /\ cnt.edit < MaxEdits
  /\ cnt' = Bump("edit")
  /\ \E i \in 1..Len(posts) :
       /\ posts[i].owner = Me
       /\ tasks' = tasks \cup {Task(Tid("edit", cnt.edit + 1, 0), "editPost",
                                    "update", posts[i].id, NoId)}
  /\ UNCHANGED <<now, pageVars, posts, postsCache, srvVars, rtPosts, histVars>>
  /\ UNCHANGED <<likeVars, commentVars, friendVars>>

\* the remote store serves the update ... select().single() of updatePost:
\* the row is changed and reported, or the call has an error (also when the
\* row is gone: single() finds none)
EditAtServer(t) ==
  /\ t.kind = "editPost" /\ t.pc = "update"
  /\ \/ /\ ServerHas(t.id)
        /\ rtPosts' = Append(rtPosts, Event("UPDATE", t.id))
        /\ cnt' = Bump("event")
        /\ tasks' = Step(t, [t EXCEPT !.pc = "updated"])
     \/ /\ MayFail \/ ~ServerHas(t.id)
        /\ cnt' = IF ServerHas(t.id) THEN Bump("fail") ELSE cnt
        /\ tasks' = Step(t, [t EXCEPT !.pc = "updateFailed", !.failed = TRUE])
        /\ UNCHANGED rtPosts
  /\ UNCHANGED <<now, pageVars, posts, postsCache, srvVars, histVars>>
  /\ UNCHANGED <<likeVars, commentVars, friendVars>>

\* updatePost returns (postsCache = null; toast, setPosts with the edited
\* text) or throws (toast)
EditResolve(t) ==
  /\ t.kind = "editPost" /\ t.pc \in {"updated", "updateFailed"}
  /\ postsCache' = IF t.pc = "updated" THEN <<>> ELSE postsCache
  /\ toast' = IF t.pc = "updated" THEN "updated" ELSE "update failed"
  /\ tasks' = tasks \ {t}
  /\ UNCHANGED <<now, pageVars, posts, srvVars, rtPosts, cnt, histVars, likeVars,
                 commentVars, friends, isReminded, friendsCache, srvFriendships, loadHist, latestFetch,
                 tab, session, selectorVars, appVars, srvBookmarks, requestVars, isUploadingImages,
                 newPostImages, storage, searchVars>>

\* --------------------------------- FriendsView: deleteFriend, handleRemind
\* friendService.getCacheInfo(userId): every getFriends call of the program
\* passes the signed-in user's id, so no other key is ever written
FriendsCacheInfo(userId) == IF userId = Me THEN friendsCache ELSE <<>>

\* the friendships rows between two users, in either direction
RowsBetween(rows, a, b) ==
  {r \in rows : {r.user_id, r.friend_id} = {a, b}}

\* a removeFriendship that clears the cache entries whether or not the
\* delete succeeded
InvalidatedAlways(failed, cache) == <<>>

\* removeFriendship after its delete: if (error) throw error; then
\* invalidateCache(userId), invalidateCache(friendId)
InvalidatedUnlessFailed(failed, cache) == IF failed THEN cache ELSE <<>>

\* setFriends of a handler acts while the FriendsView that started it is
\* on screen; the task keeps the mount number in its field seq
FriendsViewOf(t) == tab = "friends" /\ t.seq = cnt.mount

\* confirm in the unfriend dialog: deleteFriend awaits removeFriendship;
\* the handler holds the friends of its render
UnfriendClick ==
  /\ tab = "friends"
  /\ cnt.unfriend < MaxUnfriends
  /\ cnt' = Bump("unfriend")
  /\ \E i \in 1..Len(friends) :
       tasks' = tasks \cup
         {[Task(Tid("unfriend", cnt.unfriend + 1, 0), "unfriend", "delete",
                <<friends[i], 0>>, NoId)
             EXCEPT !.snap = friends, !.seq = cnt.mount,
                    !.reminded = isReminded]}
  /\ UNCHANGED <<squareVars, friends, isReminded, friendsCache, srvFriendships, loadHist, latestFetch,
                 envVars, searchVars>>

\* the remote store serves the delete of removeFriendship (or fails)
UnfriendAtServer(t) ==
  /\ t.kind = "unfriend" /\ t.pc = "delete"
  /\ \/ /\ srvFriendships' =
             srvFriendships \ RowsBetween(srvFriendships, Me, t.id[1])
        /\ \E old \in OldPayloads({Me, t.id[1]}) :
             rtFriends' = IF RowsBetween(srvFriendships, Me, t.id[1]) # {}
                          THEN FriendshipEvent(rtFriends, "DELETE", {}, old)
                          ELSE rtFriends
        /\ tasks' = Step(t, [t EXCEPT !.pc = "returned"])
        /\ UNCHANGED cnt
     \/ /\ MayFail
        /\ cnt' = Bump("fail")
        /\ tasks' = Step(t, [t EXCEPT !.pc = "returned", !.failed = TRUE])
        /\ UNCHANGED <<srvFriendships, rtFriends>>
  /\ UNCHANGED <<squareVars, friends, isReminded, friendsCache, loadHist, latestFetch, tab, session, selectorVars, appVars,
                 srvBookmarks, composerVars, resultStatus, rtProfiles, searchVars>>

\* removeFriendship returns (cache entries of both users deleted,
\* setFriends(friends.filter(...)), toast) or throws (toast)
UnfriendResolve(t) ==
  /\ t.kind = "unfriend" /\ t.pc = "returned"
  /\ friendsCache' = InvalidatedUnlessFailed(t.failed, friendsCache)
  /\ friends' = IF ~t.failed /\ FriendsViewOf(t)
                THEN SelectSeq(t.snap, LAMBDA f : f # t.id[1])
                ELSE friends
  /\ isReminded' = IF ~t.failed /\ FriendsViewOf(t)
                   THEN t.reminded \ {t.id[1]}
                   ELSE isReminded
  /\ toast' = IF t.failed THEN "unfriend failed" ELSE "unfriended"
  /\ tasks' = tasks \ {t}
  /\ UNCHANGED <<squareVars, cnt, srvFriendships, loadHist, latestFetch, tab, session, selectorVars, appVars,
                 srvBookmarks, requestVars, isUploadingImages, newPostImages,
                 storage, searchVars>>

\* sendStudyReminder's select: a STUDY_REMINDER row of the pair with
\* created_at > twentyFourHoursAgo
RecentReminder(rows, senderId, receiverId, since) ==
  \E r \in rows : /\ r.sender_id = senderId
                  /\ r.user_id = receiverId
                  /\ r.created_at > since

\* click on remind of a friend not shown as reminded: handleRemind calls
\* sendStudyReminder, which computes twentyFourHoursAgo and awaits its select
RemindClick ==
  /\ tab = "friends"
  /\ cnt.remind < MaxReminds
  /\ cnt' = Bump("remind")
  /\ \E i \in 1..Len(friends) :
       /\ friends[i] \notin isReminded
       /\ tasks' = tasks \cup
            {[Task(Tid("remind", cnt.remind + 1, 0), "remind", "check",
                   <<friends[i], 0>>, NoId)
                EXCEPT !.snap = friends, !.seq = cnt.mount,
                       !.reminded = isReminded, !.since = now - DayMs]}
  /\ UNCHANGED <<squareVars, friends, isReminded, friendsCache, srvFriendships, loadHist, latestFetch,
                 envVars, searchVars>>

\* the remote store serves the select: with a row found the service returns
\* success false, with none it goes on to the insert; a checkError is thrown
RemindCheck(t) ==
  /\ t.kind = "remind" /\ t.pc = "check"
  /\ \/ /\ tasks' = Step(t, IF RecentReminder(srvReminders, Me, t.id[1],
                                              t.since)
                            THEN [t EXCEPT !.pc = "returned", !.ok = FALSE]
                            ELSE [t EXCEPT !.pc = "insert"])
        /\ UNCHANGED cnt
     \/ /\ MayFail
        /\ cnt' = Bump("fail")
        /\ tasks' = Step(t, [t EXCEPT !.pc = "returned", !.failed = TRUE])
  /\ UNCHANGED <<squareVars, friendVars>>

\* the remote store serves the insert of the STUDY_REMINDER row (created_at
\* is the store's clock), or fails: the service returns success or throws
RemindAtServer(t) ==
  /\ t.kind = "remind" /\ t.pc = "insert"
  /\ \/ /\ srvReminders' = srvReminders \cup
                             {[id |-> t.tid, sender_id |-> Me,
                               user_id |-> t.id[1], created_at |-> now]}
        /\ tasks' = Step(t, [t EXCEPT !.pc = "returned", !.ok = TRUE])
        /\ UNCHANGED cnt
     \/ /\ MayFail
        /\ cnt' = Bump("fail")
        /\ tasks' = Step(t, [t EXCEPT !.pc = "returned", !.failed = TRUE])
        /\ UNCHANGED srvReminders
  /\ UNCHANGED <<squareVars, friends, isReminded, friendsCache, srvFriendships, loadHist, latestFetch,
                 tab, session, selectorVars, noteVars, notiVars, srvBookmarks,
                 requestVars, composerVars, searchVars>>

\* handleRemind with a result: invalidateCache(user.id), setFriends over the
\* friends of its render with the friend's isReminded set, toast; with an
\* exception: toast
RemindResolve(t) ==
  /\ t.kind = "remind" /\ t.pc = "returned"
  /\ friendsCache' = IF t.failed THEN friendsCache ELSE <<>>
  /\ friends' = IF ~t.failed /\ FriendsViewOf(t) THEN t.snap ELSE friends
  /\ isReminded' = IF ~t.failed /\ FriendsViewOf(t)
                   THEN t.reminded \cup {t.id[1]}
                   ELSE isReminded
  /\ toast' = IF t.failed THEN "remind failed"
              ELSE IF t.ok THEN "reminded" ELSE "already reminded"
  /\ tasks' = tasks \ {t}
  /\ UNCHANGED <<squareVars, cnt, srvFriendships, loadHist, latestFetch, tab, session, selectorVars, appVars,
                 srvBookmarks, requestVars, isUploadingImages, newPostImages,
                 storage, searchVars>>

\* ------------------------------------------------- invalidation
\* FriendsView after its first load
InitFriendsLoaded ==
  /\ InitServer
  /\ InitView
  /\ friends = GetFriendsResult
  /\ friendsCache = <<[data |-> friends, timestamp |-> 0, reminded |-> {}]>>
  /\ session = TRUE
  /\ resultStatus = <<>>
  /\ posts = <<>>
  /\ PageFresh
  /\ postsCache = <<>>
  /\ commentsCache = <<>>
  /\ tab = "friends"
  /\ tasks = {}

\* The two views share no state: the feed, or the friends list.
InitInvalidate == InitLoaded \/ InitFriendsLoaded

\* no handler that writes to the remote store is in flight
NoMutation == \A t \in tasks : t.kind \in {"getPosts", "getFriends"}

\* the user starts a mutation when the one before has returned; fetches
\* overlap with it
NextInvalidate ==
  \/ NoMutation /\ PublishClick
  \/ \E t \in tasks : PublishOptimistic(t)
  \/ \E t \in tasks : CreateAtServer(t)
  \/ \E t \in tasks : CreateResolve(t)
  \/ \E t \in tasks : PublishRollback(t)
  \/ \E t \in tasks : FetchPost(t)
  \/ \E t \in tasks : PublishApply(t)
  \/ \E t \in tasks : GetPostsFetch(t)
  \/ \E t \in tasks : GetPostsResolve(t)
  \/ NoMutation /\ EditSave
  \/ \E t \in tasks : EditAtServer(t)
  \/ \E t \in tasks : EditResolve(t)
  \/ NoMutation /\ UnfriendClick
  \/ \E t \in tasks : UnfriendAtServer(t)
  \/ \E t \in tasks : UnfriendResolve(t)
  \/ NoMutation /\ RemindClick
  \/ \E t \in tasks : RemindCheck(t)
  \/ \E t \in tasks : RemindAtServer(t)
  \/ \E t \in tasks : RemindResolve(t)
  \/ RtFriendsDeliver
  \/ \E t \in tasks : GetFriendsFetch(t)
  \/ \E t \in tasks : GetFriendsResolve(t)

SpecInvalidate == InitInvalidate /\ [][NextInvalidate]_vars

\* ------------------------------------------------- the friends list
\* a friend removes the friendship from their own session: the rows
\* between the two are deleted at the remote store
OtherUnfriend ==
  /\ cnt.otherUnfriend < MaxOtherUnfriends
  /\ cnt' = Bump("otherUnfriend")
  /\ \E r \in srvFriendships :
       /\ r.status = "accepted" /\ Me \in {r.user_id, r.friend_id}
       /\ srvFriendships' =
            srvFriendships \ RowsBetween(srvFriendships, r.user_id, r.friend_id)
       /\ \E old \in OldPayloads({r.user_id, r.friend_id}) :
            rtFriends' = FriendshipEvent(rtFriends, "DELETE", {}, old)
  /\ UNCHANGED <<squareVars, tasks, friends, isReminded, friendsCache, loadHist, latestFetch, tab,
                 session, selectorVars, appVars, srvBookmarks, composerVars, resultStatus, rtProfiles, searchVars>>

\* one other user sends a friend request to another
OthersRequest ==
  /\ cnt.othersRow < MaxOthersRows
  /\ cnt' = [cnt EXCEPT !.othersRow = @ + 1, !.row = @ + 1]
  /\ \E a, b \in Range(IdsOf(Profiles)) \ {Me} :
       /\ a # b
       /\ srvFriendships' = srvFriendships \cup
                              {Friendship(cnt.row + 1, a, b, "pending")}
       /\ rtFriends' = FriendshipEvent(rtFriends, "INSERT", {a, b}, {})
  /\ UNCHANGED <<squareVars, tasks, friends, isReminded, friendsCache, loadHist, latestFetch, tab,
                 session, selectorVars, appVars, srvBookmarks, composerVars, resultStatus, rtProfiles, searchVars>>

\* friendships come and go while the user moves between the tabs
NextFriendsList ==
  \/ OtherUnfriend
  \/ NoMutation /\ UnfriendClick
  \/ \E t \in tasks : UnfriendAtServer(t)
  \/ \E t \in tasks : UnfriendResolve(t)
  \/ RtFriendsDeliver
  \/ \E t \in tasks : GetFriendsFetch(t)
  \/ \E t \in tasks : GetFriendsResolve(t)
  \/ LeaveFriends
  \/ OpenFriends

SpecFriendsList == InitFriendsLoaded /\ [][NextFriendsList]_vars

\* the friendships channel alone: rows of the user and of others change at
\* the remote store while FriendsView is open
NextFriendEvents ==
  \/ OtherUnfriend
  \/ OthersRequest
  \/ RtFriendsDeliver
  \/ \E t \in tasks : GetFriendsFetch(t)
  \/ \E t \in tasks : GetFriendsResolve(t)

SpecFriendEvents == InitFriendsLoaded /\ [][NextFriendEvents]_vars

\* ------------------------------------------------- profiles channel
\* a user edits their profile: the row changes at the remote store and the
\* realtime_profiles_for_friends channel, which exists while FriendsView is
\* mounted, reports the UPDATE with the row's id
ProfileUpdate ==
  /\ cnt.profile < MaxProfileUpdates
  /\ cnt' = Bump("profile")
  /\ \E id \in Range(IdsOf(Profiles)) \ {Me} :
       rtProfiles' = IF tab = "friends" THEN Append(rtProfiles, id)
                     ELSE rtProfiles
  /\ UNCHANGED <<squareVars, tasks, friends, isReminded, friendsCache, srvFriendships,
                 loadHist, latestFetch, tab, session, selectorVars, appVars, srvBookmarks, composerVars, rtFriends,
                 resultStatus, searchVars>>

\* a test that takes every updated profile for a friend's
IsShownAlways(prev, id) == TRUE

\* prev.some(f => f.id === updatedProfile.id)
IsShown(prev, id) == \E i \in 1..Len(prev) : prev[i] = id

\* profiles handler: setFriends(prev => { if (prev.some(...))
\* getFriends(user.id, true).then(setFriends); return prev })
RtProfilesDeliver ==
  /\ rtProfiles # <<>>
  /\ rtProfiles' = Tail(rtProfiles)
  /\ cnt' = Bump("event")
  /\ tasks' = IF IsShown(friends, Head(rtProfiles))
              THEN tasks \cup {GetFriendsCall(Tid("mountF", cnt.mount,
                                                  cnt.event + 1), TRUE)}
              ELSE tasks
  /\ UNCHANGED <<squareVars, friends, isReminded, friendsCache, srvFriendships, loadHist, latestFetch,
                 tab, session, selectorVars, appVars, srvBookmarks, composerVars, rtFriends,
                 resultStatus, searchVars>>

\* profiles of friends and of strangers change while friendships end
NextProfiles ==
  \/ ProfileUpdate
  \/ RtProfilesDeliver
  \/ OtherUnfriend
  \/ RtFriendsDeliver
  \/ \E t \in tasks : GetFriendsFetch(t)
  \/ \E t \in tasks : GetFriendsResolve(t)

SpecProfiles == InitFriendsLoaded /\ [][NextProfiles]_vars

\* ------------------------------------------------- likes of own posts
\* the user likes and unlikes posts of the feed, their own among them
NextOwnLikes ==
  \/ LikeClick
  \/ \E t \in tasks : LikeAuth(t)
  \/ \E t \in tasks : LikeSelect(t)
  \/ \E t \in tasks : LikeWrite(t)
  \/ \E t \in tasks : LikeResolve(t)
  \/ \E t \in tasks : LikeRollback(t)
  \/ RtLikesDeliver

SpecOwnLikes == InitOwn /\ [][NextOwnLikes]_vars

\* ------------------------------------------------- CategorySelector
\* String.prototype.trim on the inputs of the model
Trim(tag) == IF tag = " " THEN "" ELSE IF tag = " x1" THEN "x1" ELSE tag

\* a limit test that lets a fourth name through
OverLimit(sel) == Cardinality(sel) > MaxSelected

\* newSelected.size >= 3, selected.size >= 3
AtLimit(sel) == Cardinality(sel) >= MaxSelected

\* what every other action leaves alone when the selector acts
selectorRest ==
  <<squareVars, tasks, cnt, friends, isReminded, friendsCache, srvFriendships, loadHist, latestFetch,
    searchVars, tab, session, appVars, srvBookmarks, requestVars,
    composerVars>>

\* toggleCategory(name): a selected name is taken out; another is added
\* unless three are selected, then the warning is raised instead
ToggleCategory(name) ==
  IF name \in selected
  THEN selected' = selected \ {name} /\ UNCHANGED showLimitWarning
  ELSE IF AtLimit(selected)
       THEN showLimitWarning' = TRUE /\ UNCHANGED selected
       ELSE selected' = selected \cup {name} /\ UNCHANGED showLimitWarning

\* click on the pill of a category
CategoryClick ==
  /\ \E name \in categories :
       /\ ToggleCategory(name)
       /\ lastInput' = [op |-> "toggle", name |-> name]
  /\ UNCHANGED <<categories, selectorRest>>

\* addCustomTag with the text of the input field
AddCustomTag ==
  /\ \E tag \in CustomTags :
       LET trimmed == Trim(tag)
       IN  /\ trimmed # ""
           /\ lastInput' = [op |-> "custom", name |-> trimmed]
           /\ IF AtLimit(selected)
              THEN /\ showLimitWarning' = TRUE
                   /\ UNCHANGED <<selected, categories>>
              ELSE IF trimmed \notin categories
                   THEN /\ categories' = categories \cup {trimmed}
                        /\ selected' = selected \cup {trimmed}
                        /\ UNCHANGED showLimitWarning
                   ELSE /\ ToggleCategory(trimmed)
                        /\ UNCHANGED categories
  /\ UNCHANGED selectorRest

\* the timer of the limit warning runs out
WarningExpire ==
  /\ showLimitWarning
  /\ showLimitWarning' = FALSE
  /\ lastInput' = [op |-> "timer", name |-> ""]
  /\ UNCHANGED <<categories, selected, selectorRest>>

NextSelector ==
  \/ CategoryClick
  \/ AddCustomTag
  \/ WarningExpire

\* CategorySelector with the standard categories fetched
SpecSelector == InitLoaded /\ [][NextSelector]_vars

\* ------------------------------------------------- study reminders
\* the clock steps of the reminder scenarios: two of them pass the window
ReminderTickSteps == {DayMs \div 2}

\* FriendsView is open with the friends loaded; the user reminds friends
\* while time passes
NextReminders ==
  \/ RemindClick
  \/ \E t \in tasks : RemindCheck(t)
  \/ \E t \in tasks : RemindAtServer(t)
  \/ \E t \in tasks : RemindResolve(t)
  \/ \E d \in ReminderTickSteps : Tick(d, MaxLoadTicks)

SpecReminders == InitFriendsLoaded /\ [][NextReminders]_vars

\* ------------------------------------------------- handleLoadMore
\* click on load more (rendered while hasMore, disabled while
\* isLoadingMore): setIsLoadingMore(true), then await getPosts(page + 1, 10),
\* which never reads the cache for a page above 0
LoadMoreClick ==
  /\ hasMore /\ ~isLoadingMore
  /\ cnt.loadMore < MaxLoadMore
  /\ cnt' = Bump("loadMore")
  /\ isLoadingMore' = TRUE
  /\ tasks' = tasks \cup
       {[Task(Tid("more", cnt.loadMore + 1, 0), "loadMore", "fetch", NoId,
              NoId) EXCEPT !.nextPage = page + 1, !.seq = cnt.mount]}
  /\ UNCHANGED <<now, page, hasMore, posts, postsCache, srvVars, rtPosts,
                 histVars, likeVars, commentVars, friendVars>>

\* getPosts(nextPage, 10): the remote store answers the select with its
\* rows of that range (or fails: the service logs and returns [])
LoadMoreFetch(t) ==
  /\ t.kind = "loadMore" /\ t.pc = "fetch"
  /\ \/ /\ tasks' = Step(t, [t EXCEPT !.pc = "resolve",
                                      !.snap = GetPostsPage(t.nextPage)])
        /\ UNCHANGED cnt
     \/ /\ MayFail
        /\ cnt' = Bump("fail")
        /\ tasks' = Step(t, [t EXCEPT !.pc = "resolve", !.ok = FALSE])
  /\ UNCHANGED <<squareVars, friendVars>>

\* handleLoadMore after its await: setHasMore(false) on a short page,
\* setPosts(prev => [...prev, ...newData]), setPage(nextPage), and
\* setIsLoadingMore(false) in finally
LoadMoreResolve(t) ==
  /\ t.kind = "loadMore" /\ t.pc = "resolve"
  /\ IF t.seq = cnt.mount
     THEN /\ hasMore' = IF Len(t.snap) < PageSize THEN FALSE ELSE hasMore
          /\ posts' = posts \o t.snap
          /\ page' = t.nextPage
          /\ isLoadingMore' = FALSE
     ELSE UNCHANGED <<hasMore, posts, page, isLoadingMore>>
  /\ tasks' = tasks \ {t}
  /\ UNCHANGED <<now, postsCache, srvVars, rtPosts, cnt, histVars, likeVars,
                 commentVars, friendVars>>

\* a post older than the feed's first one
OlderId(n) == <<"old", n>>

\* the remote table holds a full page of posts of other users, newest first
FullPage ==
  <<[id |-> SrvId(0), owner |-> Other]>>
    \o [i \in 1..(PageSize - 1) |-> [id |-> OlderId(i), owner |-> Other]]

\* SquareView after its first load of a full page
InitPaged ==
  /\ InitClient
  /\ srvPosts = FullPage
  /\ srvLikes = {<<SrvId(0), Other>>}
  /\ srvComments = {}
  /\ srvBookmarks = {}
  /\ posts = GetPostsResult
  /\ PageLoaded(posts)
  /\ postsCache = <<[data |-> posts, timestamp |-> 0]>>
  /\ commentsCache = <<>>
  /\ tab = "square"
  /\ tasks = {}

\* the user publishes and pages on while the channel reports the new row
NextPaged ==
  \/ LoadMoreClick
  \/ \E t \in tasks : LoadMoreFetch(t)
  \/ \E t \in tasks : LoadMoreResolve(t)
  \/ PublishClick
  \/ \E t \in tasks : PublishOptimistic(t)
  \/ \E t \in tasks : CreateAtServer(t)
  \/ \E t \in tasks : CreateResolve(t)
  \/ \E t \in tasks : PublishRollback(t)
  \/ \E t \in tasks : FetchPost(t)
  \/ \E t \in tasks : PublishApply(t)
  \/ RtPostsDeliver
  \/ \E t \in tasks : RtInsertApply(t)
  \/ \E t \in tasks : GetPostsFetch(t)
  \/ \E t \in tasks : GetPostsResolve(t)

SpecPaged == InitPaged /\ [][NextPaged]_vars

\* ------------------------------------------------- notes: create and channel
NoteId(n) == <<"note", n>>

\* notesChannel INSERT: setNotes(prev => prev.some(...) ? prev : [note, ...prev])
NoteInsertMerge(prev, newNote) ==
  IF HasId(prev, newNote.id) THEN prev ELSE <<newNote>> \o prev

\* save in the editor of a new note (editingNote.id is a Date.now() string
\* that no listed note carries): handleSaveNote awaits getUser; the handler
\* holds the notes of its render
NoteSave ==
  /\ cnt.note < MaxNotes
  /\ cnt' = Bump("note")
  /\ tasks' = tasks \cup
       {[Task(Tid("note", cnt.note + 1, 0), "saveNote", "auth",
              NoteId(cnt.note + 1), TempId(cnt.note + 1))
           EXCEPT !.snap = notes]}
  /\ UNCHANGED <<squareVars, friends, isReminded, friendsCache,
                 srvFriendships, loadHist, latestFetch, envVars, searchVars>>

\* after await getUser: setNotes([tempNote, ...notes]), then createNote is
\* awaited; without a user the handler throws to its outer catch
NoteOptimistic(t) ==
  /\ t.kind = "saveNote" /\ t.pc = "auth"
  /\ IF session
     THEN /\ notes' = <<[id |-> t.temp]>> \o t.snap
          /\ tasks' = Step(t, [t EXCEPT !.pc = "create"])
     ELSE /\ tasks' = tasks \ {t}
          /\ UNCHANGED notes
  /\ UNCHANGED <<squareVars, cnt, friends, isReminded, friendsCache,
                 srvFriendships, loadHist, latestFetch, tab, session, selectorVars,
                 srvReminders, notiVars, srvNotes, rtNotes, srvBookmarks, requestVars,
                 composerVars, searchVars>>

\* the remote store serves the insert of createNote (or fails); the channel
\* reports the new row
NoteAtServer(t) ==
  /\ t.kind = "saveNote" /\ t.pc = "create"
  /\ \/ /\ srvNotes' = srvNotes \cup {[id |-> t.id, user_id |-> Me]}
        /\ rtNotes' = Append(rtNotes, [type |-> "INSERT", id |-> t.id,
                                       user_id |-> Me])
        /\ tasks' = Step(t, [t EXCEPT !.pc = "created"])
        /\ UNCHANGED cnt
     \/ /\ MayFail
        /\ cnt' = Bump("fail")
        /\ tasks' = Step(t, [t EXCEPT !.pc = "created", !.failed = TRUE])
        /\ UNCHANGED <<srvNotes, rtNotes>>
  /\ UNCHANGED <<squareVars, friends, isReminded, friendsCache,
                 srvFriendships, loadHist, latestFetch, tab, session, selectorVars,
                 srvReminders, notiVars, notes, srvBookmarks, requestVars,
                 composerVars, searchVars>>

\* createNote returns its row: setNotes(current => current.map(temp ->
\* newNoteData)); or throws: setNotes(current => current.filter(not temp))
NoteResolve(t) ==
  /\ t.kind = "saveNote" /\ t.pc = "created"
  /\ notes' = IF t.failed THEN RemoveId(notes, t.temp)
              ELSE ReplaceId(notes, t.temp, [id |-> t.id])
  /\ tasks' = tasks \ {t}
  /\ UNCHANGED <<squareVars, cnt, friends, isReminded, friendsCache,
                 srvFriendships, loadHist, latestFetch, tab, session, selectorVars,
                 srvReminders, notiVars, srvNotes, rtNotes, srvBookmarks, requestVars,
                 composerVars, searchVars>>

\* another user creates a note; the channel reports the row
OtherNote ==
  /\ cnt.otherNote < MaxOtherNotes
  /\ cnt' = Bump("otherNote")
  /\ srvNotes' = srvNotes \cup {[id |-> <<"theirs", cnt.otherNote + 1>>,
                                 user_id |-> Other]}
  /\ rtNotes' = Append(rtNotes, [type |-> "INSERT",
                                 id |-> <<"theirs", cnt.otherNote + 1>>,
                                 user_id |-> Other])
  /\ UNCHANGED <<squareVars, tasks, friends, isReminded, friendsCache,
                 srvFriendships, loadHist, latestFetch, tab, session, selectorVars,
                 srvReminders, notiVars, notes, srvBookmarks, requestVars,
                 composerVars, searchVars>>

\* the channel callback runs for the oldest event and awaits getUser
RtNotesDeliver ==
  /\ rtNotes # <<>>
  /\ rtNotes' = Tail(rtNotes)
  /\ tasks' = tasks \cup
       {[Task(Tid("noteEvent", cnt.event + 1, 0),
              "rtNote", "auth", Head(rtNotes).id, NoId)
           EXCEPT !.query = <<Head(rtNotes).user_id>>]}
  /\ cnt' = Bump("event")
  /\ UNCHANGED <<squareVars, friends, isReminded, friendsCache,
                 srvFriendships, loadHist, latestFetch, tab, session, selectorVars,
                 srvReminders, notiVars, notes, srvNotes, srvBookmarks, requestVars,
                 composerVars, searchVars>>

\* the callback after getUser: rows of other users are skipped, an INSERT
\* of the user is merged into the list
RtNotesApply(t) ==
  /\ t.kind = "rtNote" /\ t.pc = "auth"
  /\ notes' = IF session /\ t.query = <<Me>>
              THEN NoteInsertMerge(notes, [id |-> t.id])
              ELSE notes
  /\ tasks' = tasks \ {t}
  /\ UNCHANGED <<squareVars, cnt, friends, isReminded, friendsCache,
                 srvFriendships, loadHist, latestFetch, tab, session, selectorVars,
                 srvReminders, notiVars, srvNotes, rtNotes, srvBookmarks, requestVars,
                 composerVars, searchVars>>

NextNotes ==
  \/ NoteSave
  \/ \E t \in tasks : NoteOptimistic(t)
  \/ \E t \in tasks : NoteAtServer(t)
  \/ \E t \in tasks : NoteResolve(t)
  \/ OtherNote
  \/ RtNotesDeliver
  \/ \E t \in tasks : RtNotesApply(t)

SpecNotes == InitLoaded /\ [][NextNotes]_vars

\* ------------------------------------------------- like and bookmark together
\* the user toggles likes and bookmarks of the loaded posts, one call at a
\* time, while another user's likes arrive over the likes channel
NextToggles ==
  \/ Idle /\ LikeClick
  \/ \E t \in tasks : LikeAuth(t)
  \/ \E t \in tasks : LikeSelect(t)
  \/ \E t \in tasks : LikeWrite(t)
  \/ \E t \in tasks : LikeResolve(t)
  \/ \E t \in tasks : LikeRollback(t)
  \/ Idle /\ BookmarkClick
  \/ \E t \in tasks : BookmarkAuth(t)
  \/ \E t \in tasks : BookmarkSelect(t)
  \/ \E t \in tasks : BookmarkWrite(t)
  \/ \E t \in tasks : BookmarkResolve(t)
  \/ RtLikesDeliver
  \/ OtherUserLike

SpecToggles == InitOwn /\ [][NextToggles]_vars

\* ------------------------------------------------- notifications
NotiId(n) == <<"noti", n>>

\* a row of the notifications table addressed to the user
Notification(n, type, friendshipId) ==
  [id |-> NotiId(n), type |-> type, friendship_id |-> friendshipId,
   is_read |-> FALSE]

\* the numbers of a set, largest first
RECURSIVE Descending(_)
Descending(S) ==
  IF S = {} THEN <<>>
  ELSE LET m == CHOOSE x \in S : \A y \in S : y <= x
       IN  <<m>> \o Descending(S \ {m})

\* the friendship:friendship_id (status) join of getNotifications
JoinedStatus(friendshipId) ==
  IF \E r \in srvFriendships : r.id = friendshipId
  THEN (CHOOSE r \in srvFriendships : r.id = friendshipId).status
  ELSE "none"

\* notificationService.getNotifications: the rows of the user, newest first,
\* as the service maps them
GetNotificationsResult ==
  LET order == Descending({r.id[2] : r \in srvNotifications})
      row(n) == CHOOSE r \in srvNotifications : r.id = NotiId(n)
  IN  [i \in 1..Len(order) |->
         [id |-> row(order[i]).id, type |-> row(order[i]).type,
          relatedId |-> row(order[i]).friendship_id,
          isRead |-> row(order[i]).is_read,
          status |-> IF row(order[i]).type = "FRIEND_REQUEST"
                     THEN JoinedStatus(row(order[i]).friendship_id)
                     ELSE "none"]]

\* update({is_read: true}).eq('id', notificationId)
MarkRowRead(rows, notificationId) ==
  {IF r.id = notificationId THEN [r EXCEPT !.is_read = TRUE] ELSE r : r \in rows}

\* update({is_read: true}).eq('user_id', userId).eq('is_read', false)
MarkAllRowsRead(rows) == {[r EXCEPT !.is_read = TRUE] : r \in rows}

\* prev.map(n => n.id === noti.id ? {...n, isRead: true} : n)
ShowRead(prev, notificationId) ==
  [i \in 1..Len(prev) |->
     IF prev[i].id = notificationId THEN [prev[i] EXCEPT !.isRead = TRUE]
     ELSE prev[i]]

\* prev.map(n => ({...n, isRead: true}))
ShowAllRead(prev) == [i \in 1..Len(prev) |-> [prev[i] EXCEPT !.isRead = TRUE]]

\* prev.map(n => n.id === noti.id ? {...n, status: action, isRead: true} : n)
ShowAnswered(prev, notificationId, action) ==
  [i \in 1..Len(prev) |->
     IF prev[i].id = notificationId
     THEN [prev[i] EXCEPT !.status = action, !.isRead = TRUE]
     ELSE prev[i]]

\* MainLayout: hasUnread
HasUnread == \E i \in 1..Len(notifications) : ~notifications[i].isRead

\* what the handlers of the notification panel leave alone
notiRest ==
  <<squareVars, friends, isReminded, friendsCache, loadHist, latestFetch, tab,
    session, selectorVars, srvReminders, noteVars, srvBookmarks, requestVars,
    composerVars, searchVars>>

\* another user likes or comments: a row for the user is inserted and the
\* channel reports it
OtherNotifies ==
  /\ cnt.notify < MaxNotifies
  /\ cnt' = [cnt EXCEPT !.notify = @ + 1, !.row = @ + 1]
  /\ srvNotifications' = srvNotifications \cup
                           {Notification(cnt.row + 1, "LIKE", NoId)}
  /\ rtNotifs' = rtNotifs + 1
  /\ UNCHANGED <<notiRest, tasks, srvFriendships, notifications,
                 isNotificationsOpen, answered>>

\* another user sends the user a friend request: the friendship row and the
\* FRIEND_REQUEST row that points at it are inserted
RequestArrives ==
  /\ cnt.otherRequest < MaxOtherRequests
  /\ cnt' = [cnt EXCEPT !.otherRequest = @ + 1, !.row = @ + 1]
  /\ srvFriendships' = srvFriendships \cup
                         {Friendship(cnt.row + 1, "u2", Me, "pending")}
  /\ srvNotifications' = srvNotifications \cup
       {Notification(cnt.row + 1, "FRIEND_REQUEST", <<"f", cnt.row + 1>>)}
  /\ rtNotifs' = rtNotifs + 1
  /\ UNCHANGED <<notiRest, tasks, notifications, isNotificationsOpen, answered>>

\* realtime_notifications INSERT callback: fetchNotifications()
RtNotifsDeliver ==
  /\ rtNotifs > 0
  /\ rtNotifs' = rtNotifs - 1
  /\ cnt' = Bump("event")
  /\ tasks' = tasks \cup
       {Task(Tid("notiEvent", cnt.event + 1, 0), "fetchNotifications",
             "fetch", NoId, NoId)}
  /\ UNCHANGED <<notiRest, srvFriendships, notifications, srvNotifications,
                 isNotificationsOpen, answered>>

\* the remote store serves the select of getNotifications; on an error the
\* service returns []
NotiFetch(t) ==
  /\ t.kind = "fetchNotifications" /\ t.pc = "fetch"
  /\ \/ /\ tasks' = Step(t, [t EXCEPT !.pc = "resolve",
                                      !.snap = GetNotificationsResult])
        /\ UNCHANGED cnt
     \/ /\ MayFail
        /\ cnt' = Bump("fail")
        /\ tasks' = Step(t, [t EXCEPT !.pc = "resolve", !.snap = <<>>])
  /\ UNCHANGED <<notiRest, srvFriendships, notiVars>>

\* fetchNotifications after the await: setNotifications(data)
NotiResolve(t) ==
  /\ t.kind = "fetchNotifications" /\ t.pc = "resolve"
  /\ notifications' = t.snap
  /\ tasks' = tasks \ {t}
  /\ UNCHANGED <<notiRest, cnt, srvFriendships, srvNotifications, rtNotifs,
                 isNotificationsOpen, answered>>

\* handleOpenNotifications: the panel opens; with an unread entry on
\* display markAllAsRead is called
OpenNotifications ==
  /\ ~isNotificationsOpen
  /\ cnt.open < MaxOpens
  /\ cnt' = Bump("open")
  /\ isNotificationsOpen' = TRUE
  /\ tasks' = IF HasUnread
              THEN tasks \cup {Task(Tid("open", cnt.open + 1, 0), "markAll",
                                    "server", NoId, NoId)}
              ELSE tasks
  /\ UNCHANGED <<notiRest, srvFriendships, notifications, srvNotifications,
                 rtNotifs, answered>>

\* onClose of the panel
CloseNotifications ==
  /\ isNotificationsOpen
  /\ isNotificationsOpen' = FALSE
  /\ UNCHANGED <<notiRest, tasks, cnt, srvFriendships, notifications,
                 srvNotifications, rtNotifs, answered>>

\* NotificationView.markAllRead
MarkAllClick ==
  /\ isNotificationsOpen
  /\ cnt.markAll < MaxMarkAlls
  /\ cnt' = Bump("markAll")
  /\ tasks' = tasks \cup {Task(Tid("markAll", cnt.markAll + 1, 0), "markAll",
                               "server", NoId, NoId)}
  /\ UNCHANGED <<notiRest, srvFriendships, notiVars>>

\* the remote store serves the update of markAllAsRead (or fails)
MarkAllAtServer(t) ==
  /\ t.kind = "markAll" /\ t.pc = "server"
  /\ \/ /\ srvNotifications' = MarkAllRowsRead(srvNotifications)
        /\ tasks' = Step(t, [t EXCEPT !.pc = "resolve"])
        /\ UNCHANGED cnt
     \/ /\ MayFail
        /\ cnt' = Bump("fail")
        /\ tasks' = Step(t, [t EXCEPT !.pc = "resolve", !.failed = TRUE])
        /\ UNCHANGED srvNotifications
  /\ UNCHANGED <<notiRest, srvFriendships, notifications, rtNotifs,
                 isNotificationsOpen, answered>>

\* after the await: every entry on display is set to read; a rejection is
\* logged
MarkAllResolve(t) ==
  /\ t.kind = "markAll" /\ t.pc = "resolve"
  /\ notifications' = IF t.failed THEN notifications
                      ELSE ShowAllRead(notifications)
  /\ tasks' = tasks \ {t}
  /\ UNCHANGED <<notiRest, cnt, srvFriendships, srvNotifications, rtNotifs,
                 isNotificationsOpen, answered>>

\* the markAsRead call a click on an entry starts, none for a read entry
MarkTask(noti, n) ==
  IF noti.isRead THEN {}
  ELSE {Task(Tid("mark", n, 0), "markAsRead", "server", noti.id, NoId)}

\* handleNotificationClick on an unread entry: markAsRead(noti) (the post
\* detail it may load is not part of the list)
NotiClick ==
  /\ isNotificationsOpen
  /\ cnt.mark < MaxMarks
  /\ cnt' = Bump("mark")
  /\ \E i \in 1..Len(notifications) :
       /\ ~notifications[i].isRead
       /\ tasks' = tasks \cup MarkTask(notifications[i], cnt.mark + 1)
  /\ UNCHANGED <<notiRest, srvFriendships, notiVars>>

\* the remote store serves the update of markAsRead (or fails)
MarkAtServer(t) ==
  /\ t.kind = "markAsRead" /\ t.pc = "server"
  /\ \/ /\ srvNotifications' = MarkRowRead(srvNotifications, t.id)
        /\ tasks' = Step(t, [t EXCEPT !.pc = "resolve"])
        /\ UNCHANGED cnt
     \/ /\ MayFail
        /\ cnt' = Bump("fail")
        /\ tasks' = Step(t, [t EXCEPT !.pc = "resolve", !.failed = TRUE])
        /\ UNCHANGED srvNotifications
  /\ UNCHANGED <<notiRest, srvFriendships, notifications, rtNotifs,
                 isNotificationsOpen, answered>>

\* markAsRead after the await: the entry is set to read
MarkResolve(t) ==
  /\ t.kind = "markAsRead" /\ t.pc = "resolve"
  /\ notifications' = IF t.failed THEN notifications
                      ELSE ShowRead(notifications, t.id)
  /\ tasks' = tasks \ {t}
  /\ UNCHANGED <<notiRest, cnt, srvFriendships, srvNotifications, rtNotifs,
                 isNotificationsOpen, answered>>

\* a click on one of the two buttons of a pending request: handleAction is
\* called, and the click reaches the entry's own onClick as well
ActionClick ==
  /\ isNotificationsOpen
  /\ cnt.respond < MaxResponds
  /\ cnt' = Bump("respond")
  /\ \E i \in 1..Len(notifications), action \in {"accepted", "rejected"} :
       LET noti == notifications[i]
       IN  /\ noti.type = "FRIEND_REQUEST" /\ noti.status = "pending"
           /\ noti.relatedId # NoId
           /\ tasks' = tasks
                \cup {[Task(Tid("respond", cnt.respond + 1, 0), "respond",
                            "server", noti.id, noti.relatedId)
                         EXCEPT !.answer = action, !.wasRead = noti.isRead]}
                \cup MarkTask(noti, MaxMarks + cnt.respond + 1)
  /\ UNCHANGED <<notiRest, srvFriendships, notiVars>>

\* friendService.respondToFriendRequest called from another user's session
\* for any row
RespondCall ==
  /\ cnt.otherRespond < MaxOtherResponds
  /\ cnt' = Bump("otherRespond")
  /\ \E r \in srvFriendships, userId \in {"u1", "u2", Other},
        status \in {"accepted", "rejected"} :
       tasks' = tasks \cup
         {[Task(Tid("call", cnt.otherRespond + 1, 0), "respond", "server",
                NoId, r.id)
             EXCEPT !.answer = status, !.caller = userId, !.wasRead = TRUE]}
  /\ UNCHANGED <<notiRest, srvFriendships, notiVars>>

\* the remote store serves the update of respondToFriendRequest: single()
\* answers with an error when no row was updated
RespondAtServer(t) ==
  /\ t.kind = "respond" /\ t.pc = "server"
  /\ \/ /\ srvFriendships' = RespondUpdate(srvFriendships, t.temp, t.caller,
                                           t.answer)
        /\ IF RespondMatches(srvFriendships, t.temp, t.caller) # {}
           THEN /\ answered' = answered \cup {<<t.temp, t.answer>>}
                /\ tasks' = Step(t, [t EXCEPT !.pc = IF t.wasRead
                                                     THEN "resolve"
                                                     ELSE "mark"])
           ELSE /\ tasks' = Step(t, [t EXCEPT !.pc = "resolve",
                                              !.failed = TRUE])
                /\ UNCHANGED answered
        /\ UNCHANGED cnt
     \/ /\ MayFail
        /\ cnt' = Bump("fail")
        /\ tasks' = Step(t, [t EXCEPT !.pc = "resolve", !.failed = TRUE])
        /\ UNCHANGED <<srvFriendships, answered>>
  /\ UNCHANGED <<notiRest, notifications, srvNotifications, rtNotifs,
                 isNotificationsOpen>>

\* handleAction, second await: markAsRead of an entry that was unread
RespondMark(t) ==
  /\ t.kind = "respond" /\ t.pc = "mark"
  /\ \/ /\ srvNotifications' = MarkRowRead(srvNotifications, t.id)
        /\ tasks' = Step(t, [t EXCEPT !.pc = "resolve"])
        /\ UNCHANGED cnt
     \/ /\ MayFail
        /\ cnt' = Bump("fail")
        /\ tasks' = Step(t, [t EXCEPT !.pc = "resolve", !.failed = TRUE])
        /\ UNCHANGED srvNotifications
  /\ UNCHANGED <<notiRest, srvFriendships, notifications, rtNotifs,
                 isNotificationsOpen, answered>>

\* handleAction after its awaits: the entry shows the answer and is read;
\* a rejection goes to the catch (toast only)
RespondResolve(t) ==
  /\ t.kind = "respond" /\ t.pc = "resolve"
  /\ notifications' = IF t.failed \/ t.caller # Me THEN notifications
                      ELSE ShowAnswered(notifications, t.id, t.answer)
  /\ tasks' = tasks \ {t}
  /\ UNCHANGED <<notiRest, cnt, srvFriendships, srvNotifications, rtNotifs,
                 isNotificationsOpen, answered>>

\* the panel while notifications and friend requests arrive
NextNotifications ==
  \/ OtherNotifies
  \/ RequestArrives
  \/ RtNotifsDeliver
  \/ \E t \in tasks : NotiFetch(t)
  \/ \E t \in tasks : NotiResolve(t)
  \/ OpenNotifications
  \/ CloseNotifications
  \/ MarkAllClick
  \/ \E t \in tasks : MarkAllAtServer(t)
  \/ \E t \in tasks : MarkAllResolve(t)
  \/ NotiClick
  \/ \E t \in tasks : MarkAtServer(t)
  \/ \E t \in tasks : MarkResolve(t)

SpecNotifications == InitLoaded /\ [][NextNotifications]_vars

\* friend requests are answered in the panel and other users call the
\* service for rows that are not theirs to answer, one click, event or
\* foreign call at a time
NextRespond ==
  \/ Idle /\ RequestArrives
  \/ Idle /\ RtNotifsDeliver
  \/ \E t \in tasks : NotiFetch(t)
  \/ \E t \in tasks : NotiResolve(t)
  \/ Idle /\ OpenNotifications
  \/ \E t \in tasks : MarkAllAtServer(t)
  \/ \E t \in tasks : MarkAllResolve(t)
  \/ Idle /\ ActionClick
  \/ \E t \in tasks : MarkAtServer(t)
  \/ \E t \in tasks : MarkResolve(t)
  \/ Idle /\ RespondCall
  \/ \E t \in tasks : RespondAtServer(t)
  \/ \E t \in tasks : RespondMark(t)
  \/ \E t \in tasks : RespondResolve(t)

SpecRespond == InitLoaded /\ [][NextRespond]_vars

\* ------------------------------------------------- overlapping refetches
\* the user sends a request, the other user answers it and friends edit
\* their profiles while the list is on screen: every event of the two
\* channels that concerns the user starts a forced refetch
NextRefetch ==
  \/ AddClick
  \/ \E t \in tasks : AddAuth(t)
  \/ \E t \in tasks : AddAtServer(t)
  \/ \E t \in tasks : AddResolve(t)
  \/ OtherRespond
  \/ RtFriendsDeliver
  \/ ProfileUpdate
  \/ RtProfilesDeliver
  \/ \E t \in tasks : GetFriendsFetch(t)
  \/ \E t \in tasks : GetFriendsResolve(t)

SpecRefetch == InitRoundTrip /\ [][NextRefetch]_vars

\* ------------------------------------------------------------ properties
Quiet == tasks = {} /\ rtPosts = <<>>

FeedIds(s) == {s[i].id : i \in 1..Len(s)}

\* C1: a realtime post INSERT that finds its id in the feed leaves the feed
\* as it is, one that does not adds the post once; no step, of the handler or
\* of the publish that produced the row, leaves an id in the feed twice.
C1_InsertIdempotent ==
  [][/\ \A id \in FeedIds(posts') : CountId(posts', id) = 1
     /\ \A t \in tasks :
          (t.kind = "rtInsert" /\ t.pc = "apply" /\ t \notin tasks') =>
            /\ HasId(posts, t.id) => posts' = posts
            /\ t.full # <<>> => CountId(posts', t.id) = 1
            /\ Len(posts') <= Len(posts) + 1]_vars

\* both deliveries of the INSERT of a published post have been merged, and
\* the publish has reconciled its temp post: the post is there
C1_Witness ==
  /\ Quiet
  /\ cnt.redeliver = 1
  /\ cnt.fail = 0
  /\ SrvId(1) \in pubDone
  /\ HasId(posts, SrvId(1))

\* C2: once a publish has been confirmed, every handler has finished and no
\* realtime event is left, the feed holds the server-assigned id exactly once
\* and no longer the temporary id.  Stated for the runs the claim surely
\* covers: no remote call failed and nobody asked to delete the post.
C2_TempReconciled ==
  \A id \in pubDone :
    (Quiet /\ ServerHas(id) /\ cnt.delete = 0 /\ cnt.fail = 0) =>
      /\ CountId(posts, id) = 1
      /\ ~HasId(posts, TempId(id[2]))

\* C6: a post deleted by its temporary id before createPost resolved is, once
\* every call and event has been processed, neither in the feed nor on the
\* server.
C6_DeleteBeforeConfirm ==
  \A id \in delEarly :
    Quiet =>
      /\ ~HasId(posts, id)
      /\ ~HasId(posts, TempId(id[2]))
      /\ ~ServerHas(id)

\* C10: a post whose realtime DELETE has been applied is in the feed in no
\* later state.
C10_NoResurrection == \A id \in rtDeleted : ~HasId(posts, id)

QuietLikes == LikeTasks = {} /\ rtLikes = <<>>

\* C3: when the remote call of a like toggle has failed, the handler ends
\* with the clicked post showing the likes and isLiked it showed before the
\* click.
C3_FailedLikeRestored ==
  [][\A t \in tasks :
       (t.kind = "like" /\ t.failed /\ \A u \in tasks' : u.tid # t.tid) =>
         \E i \in 1..Len(posts') :
           /\ posts'[i].id = t.id
           /\ posts'[i].likes = t.likes
           /\ posts'[i].isLiked = ~t.liked]_vars

\* C8: after one successful like by the user, with its realtime INSERT
\* handled and nobody else liking, the post shows one like more than before.
C8_OwnLikeCountedOnce ==
  (QuietLikes /\ cnt.like = 1 /\ cnt.otherLike = 0 /\ cnt.fail = 0) =>
    Shown(likeHist[1].id).likes = likeHist[1].likes + 1

\* C9: after two toggles of the same post, the second clicked while the
\* first call was pending, and both calls resolved, the post shows the
\* isLiked it showed before the two, and the server holds the user's like
\* row exactly if isLiked is shown.
C9_DoubleToggle ==
  (QuietLikes /\ cnt.like = 2 /\ likeHist[2].overlap /\ cnt.fail = 0
   /\ likeHist[1].id = likeHist[2].id) =>
    /\ Shown(likeHist[1].id).isLiked = likeHist[1].isLiked
    /\ Shown(likeHist[1].id).isLiked <=> <<likeHist[1].id, Me>> \in srvLikes

\* C7: after 3 comments on one post whose createComment calls were in flight
\* together, every call and realtime event processed, the post shows 3
\* comments more and the panel lists 3 more entries, all ids distinct.
C7_ThreeComments ==
  (CommentTasks = {} /\ rtComments = <<>> /\ cnt.comment = 3 /\ cnt.inflight >= 3
   /\ cnt.fail = 0) =>
    /\ Shown(SrvId(0)).comments = commentHist[1].count + 3
    /\ Len(comments) = commentHist[1].length + 3
    /\ \A i, j \in 1..Len(comments) : comments[i] = comments[j] => i = j

\* C4: when the callback of a search request resumes, searchResults is
\* written only if the request carries the highest sequence number issued
\* (and then with that request's response); the response of an older request
\* leaves searchResults alone, so that, once the results of the newer query
\* "ab" are shown, the late response for "a" leaves exactly the results for
\* "ab" on display.
C4_LatestResponseOnly ==
  [][\A t \in SearchTasks :
       (t.pc \in {"answered", "failed"} /\ \A u \in tasks' : u.tid # t.tid) =>
         IF t.seq = searchSeqRef /\ t.pc = "answered"
         THEN searchResults' = t.full
         ELSE /\ searchResults' = searchResults
              /\ (shownSeq.seq > t.seq /\ cnt.fail = 0) =>
                   searchResults' = SearchUsersResult(shownSeq.query, Me)]_vars

\* "a" was issued, then "ab"; the response for "ab" was written and the
\* response for "a" arrived afterwards and was dropped
C4_Witness ==
  /\ cnt.fail = 0
  /\ shownSeq.seq = 2 /\ shownSeq.query = <<"a", "b">> /\ shownSeq.dropped = 1
  /\ SearchTasks = {}
  /\ searchResults = SearchUsersResult(<<"a", "b">>, Me)
  /\ searchResults # SearchUsersResult(<<"a">>, Me)

\* C5: the latest loadPosts / loadFriends that found a cache entry showed
\* the cached data at once; with the entry at most 30 s old it started no
\* fetch, with an older entry it started exactly one, a remote fetch with
\* forceRefresh = true.
C5_FreshnessWindow ==
  \A view \in {"posts", "friends"} :
    loadHist[view] # <<>> =>
      LET h == loadHist[view][1]
      IN  /\ h.shown
          /\ h.age <= FreshMs => h.count = 0
          /\ h.age > FreshMs => h.count = 1 /\ h.forced

\* the friends were loaded from an entry 10 s old without a fetch and then
\* from an entry 31 s old, whose refetch is under way
C5_Witness ==
  /\ loadHist["friends"] # <<>>
  /\ loadHist["friends"][1].age = 31000 /\ loadHist["friends"][1].count = 1
  /\ cnt.mount = 2 /\ cnt.tick = 2 /\ cnt.fail = 0
  /\ \E t \in tasks : t.kind = "getFriends" /\ t.force /\ t.pc = "fetch"
  /\ friends # <<>>

\* C11: the delete handler leaves the feed and the posts cache alone while
\* its server call is pending and when that call has failed; when it ends
\* after a successful call, the post is in neither.
C11_DeleteAfterConfirm ==
  [][/\ (cnt.delete' # cnt.delete
         \/ \E t \in DeleteTasks : t.pc = "server" /\ t \notin tasks') =>
          posts' = posts /\ postsCache' = postsCache
     /\ \A t \in DeleteTasks :
          (t.pc # "server" /\ t \notin tasks') =>
            IF t.pc = "deleteFailed"
            THEN posts' = posts /\ postsCache' = postsCache
            ELSE /\ ~HasId(posts', t.id)
                 /\ postsCache' # <<>> => ~HasId(postsCache'[1].data, t.id)]_vars

\* a delete has failed and its handler has ended: both own posts are still
\* on the server, in the feed and in the cache
C11_Witness ==
  /\ cnt.delete = 1 /\ cnt.fail = 1 /\ cnt.update = 0 /\ DeleteTasks = {}
  /\ \A id \in {SrvId(1), SrvId(2)} :
       ServerHas(id) /\ HasId(posts, id) /\ HasId(postsCache[1].data, id)

\* C12: after one comment submission whose createComment failed, the panel
\* lists what it listed before the submission (no temporary comment) and the
\* post shows the comment count it showed before.
C12_FailedCommentReverted ==
  (CommentTasks = {} /\ rtComments = <<>> /\ cnt.comment = 1 /\ cnt.fail = 1) =>
    /\ Len(comments) = commentHist[1].length
    /\ \A i \in 1..Len(comments) : comments[i] # TempCommentId(1)
    /\ Shown(SrvId(0)).comments = commentHist[1].count

\* C13: with no authenticated session, selectorVars, appVars, once a like toggle, bookmark toggle,
\* comment submission or publish has run to its end, the feed, the comment
\* list, the posts cache and the remote tables are what they were before it.
C13_SignedOutChangesNothing ==
  (~session /\ tasks = {}) =>
    /\ posts = <<MkPost(SrvId(0), Other, 1, 0, FALSE)>>
    /\ comments = <<>>
    /\ postsCache = <<[data |-> <<MkPost(SrvId(0), Other, 1, 0, FALSE)>>,
                       timestamp |-> 0]>>
    /\ srvPosts = <<[id |-> SrvId(0), owner |-> Other]>>
    /\ srvLikes = {<<SrvId(0), Other>>}
    /\ srvComments = {}
    /\ srvBookmarks = {}

\* C14: when the only toggleLike or toggleBookmark call made so far has
\* failed (an error answer or a rejection) and ends, the posts cache equals
\* the snapshot taken when the call started.
C14_FailedToggleRestoresCache ==
  [][\A t \in LikeTasks \cup BookmarkTasks :
       (cnt.like + cnt.bookmark = 1 /\ t.failed /\ t.pc # "auth"
        /\ t \notin tasks' /\ tasks' \subseteq tasks) =>
         postsCache' = t.cache]_vars

\* C15: the friendships table never holds two rows for the same unordered
\* pair of users.
C15_OneRowPerPair ==
  \A r1, r2 \in srvFriendships :
    {r1.user_id, r1.friend_id} = {r2.user_id, r2.friend_id} => r1 = r2

\* C16: a request the user has sent is pending until it is answered; once
\* the other user has accepted it, a load of the friends list that has run to
\* its end (no fetch in flight, no event waiting, no call failed) shows that
\* user, also when the load fell into the freshness window of an earlier fetch.
C16_RoundTrip ==
  /\ cnt.otherRespond = 0 =>
       \A r \in srvFriendships : r.user_id = Me => r.status = "pending"
  /\ (/\ tab = "friends" /\ rtFriends = <<>> /\ cnt.fail = 0
      /\ \A t \in tasks : t.kind # "getFriends") =>
       \A r \in srvFriendships :
         (r.user_id = Me /\ r.status = "accepted") =>
           \E i \in 1..Len(friends) : friends[i] = r.friend_id

\* C17: when a remote read of getPosts or getFriends has failed while a
\* cache entry exists, the step that hands the result to the view leaves
\* the displayed list and the cache as they are.
C17_FailedRefreshKeepsList ==
  [][\A t \in tasks :
       (t.pc = "resolve" /\ ~t.ok /\ t \notin tasks') =>
         /\ (t.kind = "getPosts" /\ postsCache # <<>>) =>
              posts' = posts /\ postsCache' = postsCache
         /\ (t.kind = "getFriends" /\ friendsCache # <<>>) =>
              friends' = friends /\ friendsCache' = friendsCache]_vars

\* C18: the likes and comments counts of every post of the feed and of the
\* posts cache are never negative.
C18_CountsNonNegative ==
  /\ \A i \in 1..Len(posts) : posts[i].likes >= 0 /\ posts[i].comments >= 0
  /\ postsCache # <<>> =>
       \A i \in 1..Len(postsCache[1].data) :
         postsCache[1].data[i].likes >= 0 /\ postsCache[1].data[i].comments >= 0

\* C19: no publishPost call that was made while isUploadingImages was true
\* gets past its guard (so it adds no optimistic post and calls no
\* createPost), and the images a publish carries to createPost are all in the
\* storage, their uploads completed.
C19_NoPublishWhileUploading ==
  \A t \in tasks :
    t.kind = "publish" => ~t.uploading /\ Range(t.images) \subseteq storage

\* an upload is running and a publish attempt has just been turned away,
\* while a publish made before the upload began is on its way to createPost
C19_Witness ==
  /\ isUploadingImages /\ toast = "uploading"
  /\ \E t \in tasks : t.kind = "publish" /\ t.pc = "create"

\* C20: a getPosts or getFriends call whose remote read has failed rejects:
\* it is never about to resolve with a value.
C20_FailedReadRejects ==
  \A t \in tasks :
    (t.kind \in {"getPosts", "getFriends"} /\ ~t.ok) => t.pc # "resolve"

\* C21: a cache mutation on a collection that was never loaded is a no-op:
\* with the posts cache null, toggleLike, toggleBookmark, createComment and
\* deletePost leave it null, and createComment opens no comments cache
\* entry for a post whose comments were never fetched
C21_UnloadedStaysUnloaded == postsCache = <<>> /\ commentsCache = <<>>

\* all four mutations have succeeded at the remote store and returned
C21_Witness ==
  /\ tasks = {}
  /\ postsCache = <<>> /\ commentsCache = <<>>
  /\ \E l \in srvLikes : l[2] = Me
  /\ srvBookmarks # {}
  /\ srvComments # {}
  /\ Len(srvPosts) = 1

\* the tasks that take their step in the transition
Stepping == tasks \ tasks'

C23_ForcedRefetchReplacesCache ==
  [][\A t \in Stepping :
       (t.kind = "getFriends" /\ t.pc = "resolve" /\ t.force /\ t.ok)
         => /\ friendsCache' # <<>>
            /\ friendsCache'[1].data = t.snap]_vars

\* the ids, likes and comments counts of a list of posts
Counts(list) ==
  [i \in 1..Len(list) |->
     [id |-> list[i].id, likes |-> list[i].likes, comments |-> list[i].comments]]

\* C24: realtime events are folded into the posts cache as well as into the
\* view: with every realtime event processed and no handler in flight, the
\* loaded posts cache and the feed hold the same posts with the same likes
\* and comments counts
C24_CacheFollowsRealtime ==
  (/\ tasks = {} /\ rtPosts = <<>> /\ rtLikes = <<>> /\ rtComments = <<>>
   /\ postsCache # <<>>)
    => Counts(postsCache[1].data) = Counts(posts)

\* the step in which the realtime_friendships handler runs for the oldest
\* event
FriendsEventHandled ==
  rtFriends # <<>> /\ rtFriends' = Tail(rtFriends) /\ tab' = tab

ProfileEventHandled ==
  rtProfiles # <<>> /\ rtProfiles' = Tail(rtProfiles) /\ tab' = tab

\* C26: a realtime profiles UPDATE starts a friends-list refetch if and
\* only if the updated profile's id is in the friends list on display when
\* the handler runs; the handler itself leaves every entry of the list as
\* it is, and the update of a profile that is not in the list starts
\* nothing and changes neither the list nor the cache
C26_RefetchIffShown ==
  [][ProfileEventHandled =>
       LET id == Head(rtProfiles)
           started == tasks' \ tasks
       IN  /\ (\E i \in 1..Len(friends) : friends[i] = id) <=>
                \E t \in started :
                  t.kind = "getFriends" /\ t.pc = "fetch" /\ t.force
           /\ UNCHANGED <<friends, friendsCache>>
           /\ (\A i \in 1..Len(friends) : friends[i] # id) =>
                tasks' = tasks]_vars

\* the handler has run for the profile of a friend on display and for the
\* profile of a stranger, and the one refetch has returned
C26_Witness ==
  /\ cnt.profile = 2 /\ rtProfiles = <<>> /\ tasks = {}
  /\ cnt.event = 2 /\ cnt.otherUnfriend = 0 /\ cnt.fail = 0
  /\ friends = <<"u1">> /\ friendsCache # <<>> /\ friendsCache[1].timestamp = now
  /\ loadHist["friends"] = <<>>

\* C27: when a like toggle on a post of the user ends, likesReceived is one
\* more than it was (like) or one less and not below 0 (unlike), also when
\* two such toggles overlap; when the toggle failed, or the post is another
\* user's, likesReceived is what it was; nothing else changes it
C27_LikesReceivedExact ==
  [][/\ \A t \in Stepping :
          (t.kind = "like" /\ t.pc \in {"written", "rejected"})
            => likesReceived' =
                 IF OwnerAtClick(t) = Me /\ ~t.failed
                 THEN IF t.liked THEN likesReceived + 1
                      ELSE Max0(likesReceived - 1)
                 ELSE likesReceived
     /\ (\A t \in Stepping : t.kind # "like") => UNCHANGED likesReceived]_vars

\* created_at of a comment of the remote store
CreatedAt(id) == (CHOOSE r \in srvComments : r.id = id).created_at

\* the comments of a list that the remote store has, in the list's order
Stored(list) == SelectSeq(list, LAMBDA c : \E r \in srvComments : r.id = c)

Ascending(list) ==
  \A i, j \in 1..Len(list) : i < j => CreatedAt(list[i]) < CreatedAt(list[j])

\* C28: in the cached comment list of a post and in the open comment panel
\* the comments stand in the order of their creation at the remote store,
\* also when several createComment calls are in flight and return in
\* another order than the store served them
C28_CommentsInCreationOrder ==
  /\ \A k \in 1..Len(commentsCache) : Ascending(Stored(commentsCache[k].data))
  /\ Ascending(Stored(comments))

\* C29: the images attached to the post being composed are never more
\* than 3, whatever selections, upload completions and removals happen; a
\* selection that would bring the total above 3 is turned away with the
\* limit toast and starts no upload
C29_AtMostThreeImages ==
  [][/\ Len(newPostImages') <= MaxImages
     /\ cnt'.select # cnt.select =>
          \/ /\ tasks' = tasks /\ ~isUploadingImages' /\ toast' = "max"
             /\ newPostImages' = newPostImages
          \/ \E t \in tasks' \ tasks :
               /\ t.kind = "upload"
               /\ Len(newPostImages) + Len(t.images) <= MaxImages]_vars

\* one image is attached after uploads and a removal, and a selection of
\* three more has just been turned away
C29_Witness ==
  /\ Len(newPostImages) = 1 /\ newPostImages[1] # <<"img", 1>>
  /\ toast = "max" /\ cnt.select = 3 /\ tasks = {}

\* C30: the selected categories are never more than 3, whatever
\* toggleCategory and addCustomTag calls happen; the attempt to add a
\* fourth leaves the selection as it is and raises the limit warning
C30_AtMostThreeSelected ==
  [][/\ Cardinality(selected') <= MaxSelected
     /\ (/\ lastInput'.op \in {"toggle", "custom"}
         /\ lastInput'.name \notin selected
         /\ Cardinality(selected) = MaxSelected)
          => selected' = selected /\ showLimitWarning']_vars

\* three names are selected, a custom tag among them, and the click on a
\* fourth has raised the warning
C30_Witness ==
  /\ Cardinality(selected) = 3 /\ "x1" \in selected
  /\ showLimitWarning
  /\ lastInput.op = "toggle" /\ lastInput.name \notin selected

\* C31: two STUDY_REMINDER rows of the same sender and receiver are at least
\* 24 hours apart, and a sendStudyReminder that found a row of the pair in
\* the last 24 hours returns success false having inserted nothing.
C31_OneReminderPerDay ==
  /\ \A a, b \in srvReminders :
       (a # b /\ a.sender_id = b.sender_id /\ a.user_id = b.user_id
          /\ a.created_at <= b.created_at)
         => b.created_at - a.created_at >= DayMs
  /\ \A t \in tasks :
       (t.kind = "remind" /\ t.pc = "returned" /\ ~t.failed /\ ~t.ok)
         => \A r \in srvReminders : r.id # t.tid

\* C32: no two entries of the feed carry the same post id.
C32_FeedIdsDistinct ==
  \A i, j \in 1..Len(posts) : posts[i].id = posts[j].id => i = j

\* C33: the notes list never holds two entries with the same id, and once a
\* created note's response and its INSERT event have both been handled the
\* list holds its server id exactly once and its temporary id not at all.
C33_OneEntryPerNote ==
  /\ \A i, j \in 1..Len(notes) : notes[i].id = notes[j].id => i = j
  /\ (tasks = {} /\ rtNotes = <<>>)
       => \A r \in srvNotes :
            r.user_id = Me
              => /\ CountId(notes, r.id) = 1
                 /\ \A n \in 1..cnt.note : ~HasId(notes, TempId(n))

\* two feed entries that differ at most in the fields a toggle of that kind
\* owns
SameBut(kind, p, q) ==
  IF kind = "like"
  THEN [p EXCEPT !.isLiked = q.isLiked, !.likes = q.likes] = q
  ELSE [p EXCEPT !.isBookmarked = q.isBookmarked] = q

\* C34: the step in which a like or bookmark toggle resolves (its call has
\* returned or thrown) leaves every other entry of the feed as it was, and
\* changes of the targeted entry only isLiked and likes (isBookmarked for a
\* bookmark).
C34_ToggleTouchesOnlyItsPost ==
  [][\A t \in Stepping :
       (t.kind \in {"like", "bookmark"} /\ t.pc \in {"written", "rejected"})
         => /\ Len(posts') = Len(posts)
            /\ \A i \in 1..Len(posts) :
                 IF posts[i].id = t.id
                 THEN posts'[i].id = t.id /\ SameBut(t.kind, posts[i], posts'[i])
                 ELSE posts'[i] = posts[i]]_vars

\* C35: while the search box holds an empty query (from its clearing until a
\* non-empty query is typed) searchResults is empty and isSearching is false,
\* whatever responses arrive.
C35_ClearedStaysCleared ==
  IsBlank(addFriendId) => (searchResults = <<>> /\ ~isSearching)

\* C36: with no search request in flight and no debounce timer pending,
\* isSearching is false.
C36_SpinnerStops ==
  (SearchTasks = {} /\ searchTimeoutRef = <<>>) => ~isSearching

\* two requests overlapped, one of them failed, and the spinner has stopped
C36_Witness ==
  /\ SearchTasks = {} /\ searchTimeoutRef = <<>>
  /\ searchSeqRef = 2
  /\ cnt.fail = 1
  /\ shownSeq.dropped = 1
  /\ ~isSearching

\* C37: once no getFriends fetch is in flight, the friends list shows what
\* the most recently issued of the fetches returned, and so does the cache
\* entry (a fetch that found no friend writes no entry).  Stated for the
\* runs in which no remote call failed.
C37_LatestFetchWins ==
  (/\ latestFetch # <<>>
   /\ cnt.fail = 0
   /\ \A t \in tasks : t.kind # "getFriends")
    => /\ friends = latestFetch[1].data
       /\ latestFetch[1].data # <<>>
            => (friendsCache # <<>>
                /\ friendsCache[1].data = latestFetch[1].data)

\* a call that, once served, marks the notification read at the remote store
MarkPending(ts, notificationId) ==
  \E t \in ts :
    \/ t.kind = "markAsRead" /\ t.pc = "server" /\ t.id = notificationId
    \/ t.kind = "markAll" /\ t.pc = "server"
    \/ /\ t.kind = "respond" /\ t.pc \in {"server", "mark"}
       /\ t.id = notificationId /\ ~t.wasRead

\* C38: a notification on display as read is not set back to unread by any
\* step, and after every step each notification on display as read is read
\* at the remote store or has a mark-read call in flight.
C38_ReadStaysRead ==
  [][/\ \A i \in 1..Len(notifications), j \in 1..Len(notifications') :
          (notifications[i].id = notifications'[j].id
           /\ notifications[i].isRead) => notifications'[j].isRead
     /\ \A j \in 1..Len(notifications') :
          notifications'[j].isRead =>
            \/ \E r \in srvNotifications' :
                 r.id = notifications'[j].id /\ r.is_read
            \/ MarkPending(tasks', notifications'[j].id)]_vars

\* C39: a pending friendship becomes accepted or rejected only in the step
\* that serves a respondToFriendRequest call of its recipient; a served call
\* of anyone else changes no row and rejects; an answer on display in the
\* panel is one the remote store has served, and a handleAction whose call
\* was rejected leaves the list as it is.
C39_OnlyRecipientAnswers ==
  [][/\ \A r \in srvFriendships, q \in srvFriendships' :
          (r.id = q.id /\ r.status = "pending" /\ q.status # "pending") =>
            \E t \in tasks \ tasks' :
              /\ t.kind = "respond" /\ t.pc = "server" /\ t.temp = r.id
              /\ t.caller = r.friend_id /\ t.answer = q.status
     /\ \A t \in tasks \ tasks' :
          (/\ t.kind = "respond" /\ t.pc = "server"
           /\ ~\E r \in srvFriendships :
                 r.id = t.temp /\ r.friend_id = t.caller) =>
            /\ srvFriendships' = srvFriendships
            /\ \E u \in tasks' : u.tid = t.tid /\ u.failed
     /\ \A j \in 1..Len(notifications') :
          notifications'[j].status \in {"accepted", "rejected"} =>
            <<notifications'[j].relatedId, notifications'[j].status>>
              \in answered'
     /\ \A t \in tasks \ tasks' :
          (t.kind = "respond" /\ t.pc = "resolve" /\ t.failed) =>
            notifications' = notifications]_vars

\* a call of the initiator or of a third user has been rejected with no
\* call failing on its own, and an answer of the user is on display
C39_Witness ==
  /\ cnt.fail = 0
  /\ \E t \in tasks : /\ t.kind = "respond" /\ t.caller # Me
                      /\ t.pc = "resolve" /\ t.failed
  /\ \E j \in 1..Len(notifications) :
       notifications[j].status \in {"accepted", "rejected"}

====
